---------------------------- MODULE Spec2Model ----------------------------
(***************************************************************************)
(* A model of the pdfbreak parser core: the byte-level tokenizer with its  *)
(* pushback stack (pdfparser.h), the recursive-descent object parser, the  *)
(* top-level dispatcher and the istream interface (pdfparser.cpp), and the *)
(* serializer (pdfbase.cpp, pdffile.cpp).                                  *)
(*                                                                         *)
(* Bytes are the integers 0..255; traits_type::eof() is -1.  A string or a *)
(* token is a sequence of bytes.  A streambuf is a byte sequence `buf`     *)
(* with a 0-based read position `pos`.                                     *)
(***************************************************************************)
EXTENDS Integers, Sequences, FiniteSets, TLC

VARIABLES
  input,     \* the bytes of the byte source (fixed by Init)
  scen,      \* how Init built the input (the parts it was assembled from)
  pos,       \* position of the byte source between top-level reads
  ios,       \* the istream's state bits (eofbit, failbit, badbit)
  pc,        \* where the program stands
  tlo,       \* the TopLevelObject the read loop holds
  ts,        \* the TokenParser of the token-level specification
  op,        \* the operation performed last
  tok,       \* the token returned by the last read()/peek()
  obj,       \* the object returned by the last parse
  hist,      \* the objects returned so far, oldest first
  out,       \* the bytes written by the serializer
  ghost      \* observations taken inside the last operation

vars == <<input, scen, pos, ios, pc, tlo, ts, op, tok, obj, hist, out, ghost>>

(***************************************************************************)
(* Bytes                                                                   *)
(***************************************************************************)
Ascii ==
  "\t" :> 9 @@ "\n" :> 10 @@ "\f" :> 12 @@ "\r" :> 13 @@ " " :> 32 @@
  "#" :> 35 @@ "%" :> 37 @@ "(" :> 40 @@ ")" :> 41 @@ "+" :> 43 @@
  "-" :> 45 @@ "." :> 46 @@ "/" :> 47 @@
  "0" :> 48 @@ "1" :> 49 @@ "2" :> 50 @@ "3" :> 51 @@ "4" :> 52 @@
  "5" :> 53 @@ "6" :> 54 @@ "7" :> 55 @@ "8" :> 56 @@ "9" :> 57 @@
  "<" :> 60 @@ ">" :> 62 @@
  "A" :> 65 @@ "B" :> 66 @@ "C" :> 67 @@ "D" :> 68 @@ "E" :> 69 @@
  "F" :> 70 @@ "K" :> 75 @@ "L" :> 76 @@ "N" :> 78 @@ "R" :> 82 @@ "T" :> 84 @@
  "[" :> 91 @@ "\\" :> 92 @@ "]" :> 93 @@
  "a" :> 97 @@ "b" :> 98 @@ "c" :> 99 @@ "d" :> 100 @@ "e" :> 101 @@
  "f" :> 102 @@ "g" :> 103 @@ "h" :> 104 @@ "i" :> 105 @@ "j" :> 106 @@
  "l" :> 108 @@ "m" :> 109 @@ "n" :> 110 @@ "o" :> 111 @@ "p" :> 112 @@
  "r" :> 114 @@ "s" :> 115 @@ "t" :> 116 @@ "u" :> 117 @@ "x" :> 120 @@
  "y" :> 121 @@ "{" :> 123 @@ "}" :> 125

\* The bytes of a text given character by character.
B(chars) == [i \in DOMAIN chars |-> Ascii[chars[i]]]

NUL == 0
TAB == 9
LF == 10
FF == 12
CR == 13
SP == 32

\* std::streambuf::traits_type::eof() and to_char_type
eof == -1
to_char_type(cInt) == IF cInt = eof THEN 255 ELSE cInt

\* With(e, LAMBDA x : body) is body with x standing for the value of e
With(v, F(_)) == F(v)

Min(S) == CHOOSE x \in S : \A y \in S : x <= y
Max(S) == CHOOSE x \in S : \A y \in S : x >= y

RECURSIVE Concat(_)
Concat(ss) == IF ss = <<>> THEN <<>> ELSE Head(ss) \o Concat(Tail(ss))

Take(s, n) == SubSeq(s, 1, IF n < Len(s) THEN n ELSE Len(s))
Drop(s, n) == SubSeq(s, n + 1, Len(s))

\* std::string::find: the 0-based offset of the first occurrence, -1 (npos) if none
find(s, sep) ==
  LET I == {i \in 0..(Len(s) - Len(sep)) : SubSeq(s, i + 1, i + Len(sep)) = sep}
  IN IF I = {} THEN -1 ELSE Min(I)

(***************************************************************************)
(* charType                                                                *)
(***************************************************************************)
charType(c) ==
  IF c \in {NUL, TAB, CR, LF, FF, SP} THEN "ws"
  ELSE IF c \in {40, 41, 60, 62, 91, 93, 123, 125, 47, 37} THEN "delim"
  ELSE "regular"

(***************************************************************************)
(* The streambuf calls the parser uses, on (buf, pos)                      *)
(***************************************************************************)
sgetc(buf, p) == IF p < Len(buf) THEN buf[p + 1] ELSE eof
\* position after sbumpc() / snextc(): neither moves at end of input
bump(buf, p) == IF p < Len(buf) THEN p + 1 ELSE p

\* skipToLF that also stops after a CR
RECURSIVE skipToLF_orCR(_, _)
skipToLF_orCR(buf, p) ==
  IF sgetc(buf, p) = eof THEN p
  ELSE IF buf[p + 1] \in {LF, CR} THEN p + 1
  ELSE skipToLF_orCR(buf, p + 1)

RECURSIVE skipToLF(_, _)
skipToLF(buf, p) ==
  IF sgetc(buf, p) = eof THEN p
  ELSE IF buf[p + 1] = LF THEN p + 1
  ELSE skipToLF(buf, p + 1)

RECURSIVE skipToNLscan(_, _)
skipToNLscan(buf, p) ==
  IF sgetc(buf, p) = eof THEN p
  ELSE IF buf[p + 1] \in {LF, CR} THEN p
  ELSE skipToNLscan(buf, p + 1)

skipToNL(buf, p) ==
  With(skipToNLscan(buf, p), LAMBDA q :
    IF to_char_type(sgetc(buf, q)) = CR
    THEN IF to_char_type(sgetc(buf, bump(buf, q))) = LF
         THEN bump(buf, bump(buf, q))
         ELSE bump(buf, q)
    ELSE bump(buf, q))

\* readToNL: [s |-> the line read, pos |-> the position after it]
RECURSIVE readToNLloop(_, _, _)
readToNLloop(buf, p, s) ==
  IF sgetc(buf, p) = eof THEN [s |-> s, pos |-> p]
  ELSE LET c == buf[p + 1]
       IN IF c = LF THEN [s |-> Append(s, c), pos |-> p + 1]
          ELSE IF c = CR /\ to_char_type(sgetc(buf, p + 1)) = LF
               THEN [s |-> s \o <<CR, LF>>, pos |-> p + 2]
          ELSE readToNLloop(buf, p + 1, Append(s, c))

readToNL(buf, p) == readToNLloop(buf, p, <<>>)

\* chopNL that removes a closing LF only
chopNL_LFonly(in) == IF in # <<>> /\ in[Len(in)] = LF THEN Take(in, Len(in) - 1) ELSE in

chopNL(in) ==
  IF in = <<>> THEN in
  ELSE IF in[Len(in)] = CR THEN Take(in, Len(in) - 1)
  ELSE IF in[Len(in)] = LF
       THEN LET in1 == Take(in, Len(in) - 1)
            IN IF in1 # <<>> /\ in1[Len(in1)] = CR
               THEN Take(in1, Len(in1) - 1)
               ELSE in1
  ELSE in

(***************************************************************************)
(* TokenParser: [buf, pos] is the streambuf it reads, stack the pushback   *)
(* (top = last element), lastLen the length of the token lexed last.       *)
(* maxStack records the largest size the stack has had (an observation,    *)
(* not a field of the class).  So are raws, rawPending and rawAtToken: the *)
(* number of calls of stream(), the largest size the stack had at one of   *)
(* them, and whether each found the streambuf just after the token lexed   *)
(* last, that token being one of ( < stream xref.                          *)
(***************************************************************************)
TokenParser(buf, p) ==
  [buf |-> buf, pos |-> p, stack |-> <<>>, lastLen |-> 0, maxStack |-> 0,
   raws |-> 0, rawPending |-> 0, rawAtToken |-> TRUE]

push(t, x) ==
  [t EXCEPT !.stack = Append(@, x),
            !.maxStack = IF Len(t.stack) + 1 > @ THEN Len(t.stack) + 1 ELSE @]

RECURSIVE skipWs(_, _)
skipWs(buf, p) ==
  IF sgetc(buf, p) = eof THEN p
  ELSE IF charType(buf[p + 1]) # "ws" THEN p
  ELSE skipWs(buf, p + 1)

RECURSIVE regularRun(_, _)
regularRun(buf, p) ==
  IF sgetc(buf, p) = eof THEN p
  ELSE IF charType(buf[p + 1]) = "regular" THEN regularRun(buf, p + 1)
  ELSE p

\* underflow: [tok |-> the token lexed ("" = <<>> at end of input), ts |-> the parser after]
RECURSIVE underflow(_)
underflow(t) ==
  With(skipWs(t.buf, t.pos), LAMBDA p :
    IF sgetc(t.buf, p) = eof
    THEN [tok |-> <<>>, ts |-> [t EXCEPT !.pos = p, !.lastLen = 0]]
    ELSE LET c == t.buf[p + 1]
         IN IF charType(c) = "delim"
            THEN IF c = 37
                 THEN underflow([t EXCEPT !.pos = skipToNL(t.buf, p), !.lastLen = 0])
                 ELSE IF c \in {60, 62} /\ to_char_type(sgetc(t.buf, p + 1)) = c
                      THEN [tok |-> <<c, c>>,
                            ts |-> [t EXCEPT !.pos = p + 2, !.lastLen = 2]]
                      ELSE [tok |-> <<c>>,
                            ts |-> [t EXCEPT !.pos = p + 1, !.lastLen = 1]]
            ELSE With(regularRun(t.buf, p + 1), LAMBDA q :
                   [tok |-> SubSeq(t.buf, p + 1, q),
                    ts |-> [t EXCEPT !.pos = q, !.lastLen = q - p]]))

read(t) ==
  IF t.stack # <<>>
  THEN [tok |-> t.stack[Len(t.stack)],
        ts |-> [t EXCEPT !.stack = Take(@, Len(@) - 1)]]
  ELSE underflow(t)

consume(t) == read(t).ts

\* unread that puts the token under the tokens pushed back before it
unread_under(t, x) ==
  [t EXCEPT !.stack = <<x>> \o @,
            !.maxStack = IF Len(t.stack) + 1 > @ THEN Len(t.stack) + 1 ELSE @]

unread(t, x) == push(t, x)

\* peek() that returns the next token without keeping it for the next read
peek_consuming(t) == read(t)

\* peek() without the test for pending pushback: every call lexes a token
peek_unguarded(t) ==
  With(underflow(t), LAMBDA u : [tok |-> u.tok, ts |-> push(u.ts, u.tok)])

peek(t) ==
  IF t.stack = <<>>
  THEN With(underflow(t), LAMBDA u : [tok |-> u.tok, ts |-> push(u.ts, u.tok)])
  ELSE [tok |-> t.stack[Len(t.stack)], ts |-> t]

empty(t) == t.stack = <<>>

reset(t) == [t EXCEPT !.stack = <<>>, !.lastLen = 0]

\* The tokens after which the parsers go on reading the streambuf
RawOpeners ==
  { B(<<"(">>), B(<<"<">>), B(<<"s", "t", "r", "e", "a", "m">>), B(<<"x", "r", "e", "f">>) }

\* stream(): hands out the streambuf after reset().  Its four callers
\* assert(ts.empty()) just before; the observations record what they find.
stream(t) ==
  [reset(t) EXCEPT !.raws = @ + 1,
                   !.rawPending = IF Len(t.stack) > @ THEN Len(t.stack) ELSE @,
                   !.rawAtToken = /\ @
                                  /\ t.lastLen > 0
                                  /\ SubSeq(t.buf, t.pos - t.lastLen + 1, t.pos) \in RawOpeners]

lastpos(t) == t.pos - t.lastLen

\* ~TokenParser that leaves the streambuf where the last token ended
destroy_noseek(t) == t.pos

\* ~TokenParser: the position the streambuf is left at
destroy(t) == IF Len(t.stack) > 0 THEN t.pos - t.lastLen ELSE t.pos

(***************************************************************************)
(* Tokens the parser compares against                                      *)
(***************************************************************************)
T_slash == B(<<"/">>)
T_lparen == B(<<"(">>)
T_lt == B(<<"<">>)
T_ltlt == B(<<"<", "<">>)
T_gtgt == B(<<">", ">">>)
T_lbracket == B(<<"[">>)
T_rbracket == B(<<"]">>)
T_null == B(<<"n", "u", "l", "l">>)
T_true == B(<<"t", "r", "u", "e">>)
T_false == B(<<"f", "a", "l", "s", "e">>)
T_R == B(<<"R">>)
T_obj == B(<<"o", "b", "j">>)
T_endobj == B(<<"e", "n", "d", "o", "b", "j">>)
T_stream == B(<<"s", "t", "r", "e", "a", "m">>)
T_endstream == B(<<"e", "n", "d", "s", "t", "r", "e", "a", "m">>)
T_xref == B(<<"x", "r", "e", "f">>)
T_trailer == B(<<"t", "r", "a", "i", "l", "e", "r">>)
T_startxref == B(<<"s", "t", "a", "r", "t", "x", "r", "e", "f">>)
K_Length == B(<<"L", "e", "n", "g", "t", "h">>)

(***************************************************************************)
(* Error strings: msg is the fixed text, arg the text spliced into it,     *)
(* at the offset report_position / format_position appends (-1: none).     *)
(* The empty string is NoErr.                                              *)
(***************************************************************************)
NoErr == [msg |-> "", arg |-> <<>>, at |-> -1]
Err(msg, at) == [msg |-> msg, arg |-> <<>>, at |-> at]
ErrArg(msg, arg, at) == [msg |-> msg, arg |-> arg, at |-> at]
report_position(t) == lastpos(t)

(***************************************************************************)
(* The Object and TopLevelObject variants                                  *)
(***************************************************************************)
Null == [t |-> "Null"]
Boolean(b) == [t |-> "Boolean", val |-> b]
String(v, hex, e) == [t |-> "String", val |-> v, hex |-> hex, error |-> e]
Name(v) == [t |-> "Name", val |-> v]
Array(v, e) == [t |-> "Array", val |-> v, error |-> e]
Dictionary(v, e) == [t |-> "Dictionary", val |-> v, error |-> e]
Stream(d, data, e) == [t |-> "Stream", dict |-> d, data |-> data, error |-> e]
Indirect(num, gen) == [t |-> "Indirect", num |-> num, gen |-> gen]
Invalid(e) == [t |-> "Invalid", error |-> e]
NamedObject(num, gen, c, e) ==
  [t |-> "NamedObject", num |-> num, gen |-> gen, contents |-> c, error |-> e]
XRefTable(table) == [t |-> "XRefTable", table |-> table]
Trailer(d, start) == [t |-> "Trailer", dict |-> d, start |-> start]
StartXRef(v) == [t |-> "StartXRef", val |-> v]

\* failed() of an Object
failed(o) ==
  CASE o.t = "Numeric" -> o.dp < 0
    [] o.t \in {"String", "Array", "Dictionary"} -> o.error.msg # ""
    [] o.t = "Stream" -> o.dict.error.msg # "" \/ o.error.msg # ""
    [] o.t = "Invalid" -> TRUE
    [] OTHER -> FALSE

\* failed() of a TopLevelObject
failedTop(o) ==
  CASE o.t = "NamedObject" -> failed(o.contents) \/ o.error.msg # ""
    [] o.t = "Trailer" -> failed(o.dict)
    [] o.t = "Invalid" -> TRUE
    [] OTHER -> FALSE

\* operator bool of Object / TopLevelObject
usable(o) == o.t \notin {"Null", "Invalid"}

\* Dictionary::lookup
lookup(d, key) == IF key \in DOMAIN d.val THEN d.val[key] ELSE Null

(***************************************************************************)
(* Numeric                                                                 *)
(***************************************************************************)
isdigit(c) == c \in 48..57
isspace(c) == c \in {9, 10, 11, 12, 13, 32}

RECURSIVE spaceRun(_, _)
spaceRun(s, i) == IF i <= Len(s) /\ isspace(s[i]) THEN spaceRun(s, i + 1) ELSE i

RECURSIVE digitRun(_, _)
digitRun(s, i) == IF i <= Len(s) /\ isdigit(s[i]) THEN digitRun(s, i + 1) ELSE i

\* A long (64 bits) is held as [neg, mag]: mag the magnitude in four limbs of
\* 16 bits, the least significant first.

\* The digits s[i..j-1] read onto the limbs l0..l3: each step is value * 10 +
\* digit with the carries passed up; sat once the value has left the 64 bits
RECURSIVE decimal(_, _, _, _, _, _, _, _)
decimal(s, i, j, l0, l1, l2, l3, sat) ==
  IF i >= j THEN [mag |-> <<l0, l1, l2, l3>>, sat |-> sat]
  ELSE decimal(s, i + 1, j,
         (l0 * 10 + (s[i] - 48)) % 65536,
         (l1 * 10 + (l0 * 10 + (s[i] - 48)) \div 65536) % 65536,
         (l2 * 10 + (l1 * 10 + (l0 * 10 + (s[i] - 48)) \div 65536) \div 65536) % 65536,
         (l3 * 10 + (l2 * 10 + (l1 * 10 + (l0 * 10 + (s[i] - 48)) \div 65536) \div 65536)
                      \div 65536) % 65536,
         sat \/ (l3 * 10 + (l2 * 10 + (l1 * 10 + (l0 * 10 + (s[i] - 48)) \div 65536) \div 65536)
                            \div 65536) >= 65536)

\* The long strtol returns for the magnitude read: LONG_MAX and LONG_MIN where
\* the value is out of range
clamp(neg, acc) ==
  IF ~neg /\ (acc.sat \/ acc.mag[4] >= 32768)
  THEN [neg |-> FALSE, mag |-> <<65535, 65535, 65535, 32767>>]
  ELSE IF neg /\ (acc.sat \/ acc.mag[4] >= 32768)
  THEN [neg |-> TRUE, mag |-> <<0, 0, 0, 32768>>]
  ELSE [neg |-> neg, mag |-> acc.mag]

\* strtol(str, &last, 10): val the long returned, last the number of bytes
\* consumed (0 when no digits were found).
strtol(s) ==
  With(spaceRun(s, 1), LAMBDA i0 :
  With(i0 <= Len(s) /\ s[i0] = 45, LAMBDA neg :
  With(IF i0 <= Len(s) /\ s[i0] \in {43, 45} THEN i0 + 1 ELSE i0, LAMBDA i1 :
  With(digitRun(s, i1), LAMBDA i2 :
    IF i2 = i1 THEN [val |-> [neg |-> FALSE, mag |-> <<0, 0, 0, 0>>], last |-> 0]
    ELSE [val |-> clamp(neg, decimal(s, i1, i2, 0, 0, 0, 0, FALSE)),
          last |-> i2 - 1]))))

\* The int of the 32 bits hi * 2^16 + lo
int32(hi, lo) == IF hi >= 32768 THEN (hi - 65536) * 65536 + lo ELSE hi * 65536 + lo

\* (int) of a long: its low 32 bits, in two's complement
int_cast(v) ==
  IF ~v.neg THEN int32(v.mag[2], v.mag[1])
  ELSE IF v.mag[1] = 0 THEN int32((65536 - v.mag[2]) % 65536, 0)
  ELSE int32(65535 - v.mag[2], 65536 - v.mag[1])

NumericVal(v, dp) == [t |-> "Numeric", val_s |-> v, dp |-> dp]

\* Numeric::Numeric(std::string): int res = (int)strtol(...); val_s = res.
\* In the fail state val_s is never read.
Numeric(str) ==
  IF str = <<>> THEN NumericVal(0, -1)
  ELSE With(find(str, <<46>>), LAMBDA off :
       With(IF off # -1 THEN Take(str, off) \o Drop(str, off + 1) ELSE str, LAMBDA s2 :
       With(IF off # -1 THEN Len(s2) - off ELSE 0, LAMBDA dp_ :
       With(strtol(s2), LAMBDA res :
         IF res.last # Len(s2) THEN NumericVal(0, -1)
         ELSE NumericVal(int_cast(res.val), dp_)))))

integral(n) == n.dp = 0
uintegral(n) == integral(n) /\ n.val_s >= 0
valid(n) == ~(n.dp < 0)

RECURSIVE div10(_, _)
div10(v, d) == IF d > 0 THEN div10(v \div 10, d - 1) ELSE v

val_ulong(n) == div10(n.val_s, n.dp)

(***************************************************************************)
(* Parse functions.  Each returns [obj |-> the result, ts |-> the          *)
(* TokenParser (with its streambuf) afterwards].                           *)
(***************************************************************************)
parseName(t) ==
  With(read(read(t).ts), LAMBDA r2 :
    IF charType(IF r2.tok = <<>> THEN NUL ELSE r2.tok[1]) = "regular"
    THEN [obj |-> Name(r2.tok), ts |-> r2.ts]
    ELSE [obj |-> Invalid(Err("/ not followed by a proper name", report_position(r2.ts))),
          ts |-> r2.ts])

\* parseNumberIndir without the test of the first number
parseNumberIndir_n2only(t, n1) ==
  With(read(t), LAMBDA r2 :
  With(Numeric(r2.tok), LAMBDA n2 :
    IF integral(n1) /\ uintegral(n2)
    THEN With(read(r2.ts), LAMBDA r3 :
           IF r3.tok = T_R
           THEN [obj |-> Indirect(val_ulong(n1), val_ulong(n2)), ts |-> r3.ts]
           ELSE [obj |-> n1, ts |-> unread(unread(r3.ts, r3.tok), r2.tok)])
    ELSE [obj |-> n1, ts |-> unread(r2.ts, r2.tok)]))

\* parseNumberIndir that pushes the two tokens back in the order it read them
parseNumberIndir_swapped(t, n1) ==
  With(read(t), LAMBDA r2 :
  With(Numeric(r2.tok), LAMBDA n2 :
    IF uintegral(n1) /\ uintegral(n2)
    THEN With(read(r2.ts), LAMBDA r3 :
           IF r3.tok = T_R
           THEN [obj |-> Indirect(val_ulong(n1), val_ulong(n2)), ts |-> r3.ts]
           ELSE [obj |-> n1, ts |-> unread(unread(r3.ts, r2.tok), r3.tok)])
    ELSE [obj |-> n1, ts |-> unread(r2.ts, r2.tok)]))

parseNumberIndir(t, n1) ==
  With(read(t), LAMBDA r2 :
  With(Numeric(r2.tok), LAMBDA n2 :
    IF uintegral(n1) /\ uintegral(n2)
    THEN With(read(r2.ts), LAMBDA r3 :
           IF r3.tok = T_R
           THEN [obj |-> Indirect(val_ulong(n1), val_ulong(n2)), ts |-> r3.ts]
           ELSE [obj |-> n1, ts |-> unread(unread(r3.ts, r3.tok), r2.tok)])
    ELSE [obj |-> n1, ts |-> unread(r2.ts, r2.tok)]))

isoctal(c) == c \in 48..55

\* The loop of parseStringLiteral over the streambuf:
\* [val |-> ret, error |-> error, pos |-> the position it stops at]
RECURSIVE stringLiteralLoop(_, _, _, _)
stringLiteralLoop(buf, p, ret, parens) ==
  IF sgetc(buf, p) = eof
  THEN [val |-> ret, error |-> Err("End of input while reading string", -1), pos |-> p]
  ELSE
    LET c == buf[p + 1]
        q == p + 1
    IN
    IF c = 41 THEN
      IF parens > 0 THEN stringLiteralLoop(buf, q, Append(ret, c), parens - 1)
      ELSE [val |-> ret, error |-> NoErr, pos |-> q]
    ELSE IF c = 40 THEN stringLiteralLoop(buf, q, Append(ret, c), parens + 1)
    ELSE IF c = 92 THEN
      IF sgetc(buf, q) = eof
      THEN [val |-> ret, error |-> Err("End of input while reading string", -1), pos |-> q]
      ELSE
        LET e == buf[q + 1]
            r == q + 1
        IN
        CASE e = 110 -> stringLiteralLoop(buf, r, Append(ret, LF), parens)
          [] e = 114 -> stringLiteralLoop(buf, r, Append(ret, CR), parens)
          [] e = 116 -> stringLiteralLoop(buf, r, Append(ret, TAB), parens)
          [] e = 98 -> stringLiteralLoop(buf, r, Append(ret, 8), parens)
          [] e = 102 -> stringLiteralLoop(buf, r, Append(ret, FF), parens)
          [] e \in {40, 41, 92} -> stringLiteralLoop(buf, r, Append(ret, e), parens)
          [] e \in {CR, LF} -> stringLiteralLoop(buf, r, ret, parens)
          [] isoctal(e) ->
               LET d0 == e - 48
               IN IF sgetc(buf, r) = eof
                  THEN [val |-> ret, error |-> Err("End of input while reading string", -1),
                        pos |-> r]
                  ELSE
                    IF isoctal(buf[r + 1])
                    THEN
                      LET d1 == d0 * 8 + (buf[r + 1] - 48)
                      IN IF sgetc(buf, r + 1) = eof
                         THEN [val |-> ret,
                               error |-> Err("End of input while reading string", -1),
                               pos |-> r + 1]
                         ELSE
                           LET three == isoctal(buf[r + 2])
                               d2 == IF three THEN d1 * 8 + (buf[r + 2] - 48) ELSE d1
                               e2 == IF three THEN r + 2 ELSE r + 1
                           IN IF d2 > 255
                              THEN [val |-> ret,
                                    error |-> Err("Invalid octal value at ", e2 - 4),
                                    pos |-> e2]
                              ELSE stringLiteralLoop(buf, e2, Append(ret, d2), parens)
                    ELSE stringLiteralLoop(buf, r, Append(ret, d0), parens)
          [] OTHER -> [val |-> ret,
                       error |-> Err("Invalid character in string at ", r - 1),
                       pos |-> r]
    ELSE stringLiteralLoop(buf, q, Append(ret, c), parens)

parseStringLiteral(t) ==
  With(stream(read(t).ts), LAMBDA s :
  With(stringLiteralLoop(s.buf, s.pos, <<>>, 0), LAMBDA l :
    [obj |-> String(l.val, FALSE, l.error), ts |-> [s EXCEPT !.pos = l.pos]]))

isxdigit(c) == c \in 48..57 \/ c \in 65..70 \/ c \in 97..102
xdigit(c) == IF c \in 48..57 THEN c - 48 ELSE IF c \in 65..70 THEN c - 65 + 10 ELSE c - 97 + 10

\* The loop of parseStringHex; d is a char, so d*16 + c is taken modulo 256.
RECURSIVE stringHexLoop(_, _, _, _, _)
stringHexLoop(buf, p, ret, odd, d) ==
  IF sgetc(buf, p) = eof
  THEN [val |-> ret, error |-> Err("End of input while reading string", -1), pos |-> p]
  ELSE
    LET c == buf[p + 1]
        q == p + 1
    IN
    IF c = 62 THEN
      [val |-> IF odd = 1 THEN Append(ret, (16 * d) % 256) ELSE ret,
       error |-> NoErr, pos |-> q]
    ELSE IF isxdigit(c) THEN
      LET d1 == (d * 16 + xdigit(c)) % 256
      IN IF odd = 1 THEN stringHexLoop(buf, q, Append(ret, d1), 0, 0)
         ELSE stringHexLoop(buf, q, ret, 1, d1)
    ELSE IF c \in {SP, TAB, CR, LF, FF} THEN stringHexLoop(buf, q, ret, odd, d)
    ELSE [val |-> ret, error |-> Err("Invalid character in string at ", q - 1), pos |-> q]

parseStringHex(t) ==
  With(stream(read(t).ts), LAMBDA s :
  With(stringHexLoop(s.buf, s.pos, <<>>, 0, 0), LAMBDA l :
    [obj |-> String(l.val, TRUE, l.error), ts |-> [s EXCEPT !.pos = l.pos]]))

RECURSIVE readObject(_)
RECURSIVE parseArrayLoop(_, _)
RECURSIVE parseDictLoop(_, _)

\* The while loop of parseArray: [array, error, ts]
parseArrayLoop(t, array) ==
  With(peek(t), LAMBDA pk :
    IF pk.tok = T_rbracket
    THEN [array |-> array, error |-> NoErr, ts |-> pk.ts]
    ELSE With(readObject(pk.ts), LAMBDA r :
           IF failed(r.obj)
           THEN [array |-> Append(array, r.obj),
                 error |-> Err("Error reading array element", report_position(r.ts)),
                 ts |-> r.ts]
           ELSE parseArrayLoop(r.ts, Append(array, r.obj))))

parseArray(t) ==
  With(parseArrayLoop(read(t).ts, <<>>), LAMBDA l :
  With(peek(l.ts), LAMBDA pk :
    [obj |-> Array(l.array, l.error),
     ts |-> IF pk.tok = T_rbracket THEN consume(pk.ts) ELSE pk.ts]))

\* std::map::emplace: an existing key keeps its value
emplace(dict, key, val) ==
  IF key \in DOMAIN dict THEN dict
  ELSE [k \in DOMAIN dict \cup {key} |-> IF k = key THEN val ELSE dict[k]]

\* The value of a dictionary entry: oVal
parseDictValue(t) ==
  With(peek(t), LAMBDA pv :
    IF pv.tok = T_gtgt
    THEN [obj |-> Invalid(Err("Value not present", report_position(pv.ts))), ts |-> pv.ts]
    ELSE readObject(pv.ts))

\* The while loop of parseDict: [dict, error, ts]
parseDictLoop(t, dict) ==
  With(peek(t), LAMBDA pk :
    IF pk.tok = T_gtgt
    THEN [dict |-> dict, error |-> NoErr, ts |-> pk.ts]
    ELSE
      With(readObject(pk.ts), LAMBDA rk :
        IF failed(rk.obj)
        THEN [dict |-> dict, error |-> Err("Error reading key", report_position(rk.ts)),
              ts |-> rk.ts]
        ELSE IF rk.obj.t # "Name"
        THEN [dict |-> dict, error |-> Err("Key not a name", report_position(rk.ts)),
              ts |-> rk.ts]
        ELSE IF rk.obj.val \in DOMAIN dict
        THEN [dict |-> dict,
              error |-> ErrArg("Duplicite key /", rk.obj.val, report_position(rk.ts)),
              ts |-> rk.ts]
        ELSE
          With(parseDictValue(rk.ts), LAMBDA rv :
          With(emplace(dict, rk.obj.val, rv.obj), LAMBDA dict1 :
            IF failed(rv.obj)
            THEN [dict |-> dict1,
                  error |-> Err("Error reading value", report_position(rv.ts)),
                  ts |-> rv.ts]
            ELSE parseDictLoop(rv.ts, dict1)))))

parseDict(t) ==
  With(parseDictLoop(read(t).ts, <<>>), LAMBDA l :
  With(peek(l.ts), LAMBDA pk :
    [obj |-> Dictionary(l.dict, l.error),
     ts |-> IF pk.tok = T_gtgt THEN consume(pk.ts) ELSE pk.ts]))

readObject(t) ==
  With(peek(t), LAMBDA pk :
    CASE pk.tok = <<>> -> [obj |-> Invalid(Err("End of input", -1)), ts |-> pk.ts]
      [] pk.tok = T_slash -> parseName(pk.ts)
      [] pk.tok = T_lparen -> parseStringLiteral(pk.ts)
      [] pk.tok = T_lt -> parseStringHex(pk.ts)
      [] pk.tok = T_ltlt -> parseDict(pk.ts)
      [] pk.tok = T_lbracket -> parseArray(pk.ts)
      [] pk.tok = T_null -> [obj |-> Null, ts |-> consume(pk.ts)]
      [] pk.tok \in {T_true, T_false} ->
           [obj |-> Boolean(pk.tok = T_true), ts |-> consume(pk.ts)]
      [] OTHER ->
           With(Numeric(pk.tok), LAMBDA n1 :
             IF valid(n1) THEN parseNumberIndir(consume(pk.ts), n1)
             ELSE [obj |-> Invalid(Err("Garbage or unexpected token",
                                       report_position(pk.ts))),
                   ts |-> pk.ts]))

\* The sentinel loop of parseStream: [contents, pos, s] with s the line read last
RECURSIVE parseStreamScan(_, _, _)
parseStreamScan(buf, p, contents) ==
  With(readToNL(buf, p), LAMBDA l :
  With(find(l.s, T_endstream), LAMBDA off :
    IF l.s = <<>> THEN [contents |-> contents, pos |-> l.pos, s |-> l.s]
    ELSE IF off # -1
    THEN LET c1 == contents \o Take(l.s, off)
             q == l.pos - Len(l.s) + off + Len(T_endstream)
         IN IF off + Len(T_endstream) = Len(l.s)
            THEN [contents |-> c1, pos |-> l.pos, s |-> l.s]
            ELSE IF charType(to_char_type(sgetc(buf, q))) # "regular"
            THEN [contents |-> c1, pos |-> q, s |-> l.s]
            ELSE parseStreamScan(buf, q, c1 \o T_endstream)
    ELSE parseStreamScan(buf, l.pos, contents \o l.s)))

RECURSIVE decimalDigits(_)
decimalDigits(n) ==
  IF n < 10 THEN <<48 + n>> ELSE Append(decimalDigits(n \div 10), 48 + (n % 10))

\* format_position of a non-negative offset
format_position(n) == decimalDigits(n)

\* The branch of parseStream taken with a usable /Length: s0 is the parser
\* after stream(), p0 the position after skipToLF, len the value of /Length
parseStreamLength(s0, p0, dict, len) ==
  With(IF Len(s0.buf) - p0 < len THEN Len(s0.buf) - p0 ELSE len, LAMBDA lenRead :
  \* contents.resize(len) zero-fills what sgetn does not overwrite
  With(SubSeq(s0.buf, p0 + 1, p0 + lenRead) \o [i \in 1..(len - lenRead) |-> NUL],
       LAMBDA contents :
    IF lenRead < len
    THEN [obj |-> Stream(dict, contents,
                    ErrArg("End of input during reading stream data, read N bytes",
                           format_position(lenRead), -1)),
          ts |-> [s0 EXCEPT !.pos = p0 + lenRead]]
    ELSE With(read([s0 EXCEPT !.pos = p0 + lenRead]), LAMBDA re :
           IF re.tok # T_endstream
           THEN [obj |-> Stream(dict, contents,
                                Err("endstream not found", report_position(re.ts))),
                 ts |-> re.ts]
           ELSE [obj |-> Stream(dict, contents, NoErr), ts |-> re.ts])))

\* The branch of parseStream that scans for the endstream sentinel
parseStreamSentinel(s0, p0, dict) ==
  With(parseStreamScan(s0.buf, p0, <<>>), LAMBDA sc :
    [obj |-> Stream(dict, chopNL(sc.contents),
                    IF sc.s = <<>> THEN Err("End of input during reading stream data", -1)
                    ELSE NoErr),
     ts |-> reset([s0 EXCEPT !.pos = sc.pos])])

parseStream(t, dict) ==
  With(stream(read(t).ts), LAMBDA s0 :
  With(skipToLF(s0.buf, s0.pos), LAMBDA p0 :
  With(lookup(dict, K_Length), LAMBDA oLen :
    IF oLen.t = "Numeric" /\ uintegral(oLen)
    THEN parseStreamLength(s0, p0, dict, val_ulong(oLen))
    ELSE parseStreamSentinel(s0, p0, dict))))

(***************************************************************************)
(* Top level object parsing                                                *)
(***************************************************************************)
\* skipToEndobj without the look at the byte that follows the separator
RECURSIVE skipToEndobj_anyFollow(_, _)
skipToEndobj_anyFollow(buf, p) ==
  With(readToNL(buf, p), LAMBDA l :
  With(find(l.s, T_endobj), LAMBDA off :
    IF l.s = <<>> THEN [found |-> FALSE, pos |-> l.pos]
    ELSE IF off # -1
    THEN [found |-> TRUE,
          pos |-> IF off + Len(T_endobj) = Len(l.s) THEN l.pos
                  ELSE l.pos - Len(l.s) + off + Len(T_endobj)]
    ELSE skipToEndobj_anyFollow(buf, l.pos)))

\* skipToEndobj: [found |-> the bool returned, pos |-> the position after]
RECURSIVE skipToEndobj(_, _)
skipToEndobj(buf, p) ==
  With(readToNL(buf, p), LAMBDA l :
  With(find(l.s, T_endobj), LAMBDA off :
    IF l.s = <<>> THEN [found |-> FALSE, pos |-> l.pos]
    ELSE IF off # -1
    THEN LET q == l.pos - Len(l.s) + off + Len(T_endobj)
         IN IF off + Len(T_endobj) = Len(l.s) THEN [found |-> TRUE, pos |-> l.pos]
            ELSE IF charType(to_char_type(sgetc(buf, q))) # "regular"
            THEN [found |-> TRUE, pos |-> q]
            ELSE skipToEndobj(buf, q)
    ELSE skipToEndobj(buf, l.pos)))

\* parseNamedObject after the header: the contents are read, then the stream
\* if the contents are a Dictionary followed by the token stream
parseNamedContents(t) ==
  With(readObject(t), LAMBDA rc :
    IF rc.obj.t = "Dictionary"
    THEN With(peek(rc.ts), LAMBDA pk :
           IF pk.tok = T_stream THEN parseStream(pk.ts, rc.obj)
           ELSE [obj |-> rc.obj, ts |-> pk.ts])
    ELSE rc)

\* parseNamedObject from the contents on
parseNamedBody(t, num, gen) ==
  With(parseNamedContents(t), LAMBDA rs :
  With(read(rs.ts), LAMBDA re :
    [obj |-> NamedObject(val_ulong(num), val_ulong(gen), rs.obj,
                         IF re.tok # T_endobj
                         THEN IF re.tok = <<>>
                              THEN Err("End of input where endobj expected", -1)
                              ELSE Err("endobj not found", report_position(re.ts))
                         ELSE NoErr),
     ts |-> re.ts]))

parseNamedObject(t) ==
  With(read(t), LAMBDA r1 :
    IF ~uintegral(Numeric(r1.tok))
    THEN [obj |-> Invalid(Err("Misshaped named object header (gen)", report_position(r1.ts))),
          ts |-> r1.ts]
    ELSE
      With(read(r1.ts), LAMBDA r2 :
        IF ~uintegral(Numeric(r2.tok))
        THEN [obj |-> Invalid(Err("Misshaped named object header (gen)",
                                  report_position(r2.ts))),
              ts |-> r2.ts]
        ELSE
          With(read(r2.ts), LAMBDA r3 :
            IF r3.tok # T_obj
            THEN [obj |-> Invalid(Err("Misshaped named object header (obj)",
                                      report_position(r3.ts))),
                  ts |-> r3.ts]
            ELSE parseNamedBody(r3.ts, Numeric(r1.tok), Numeric(r2.tok)))))

\* One subsection of parseXRefTable after its start token s has been consumed
\* (t1 the parser then): the count, the rest of the line, 20 bytes per entry.
\* `unsigned len` wraps at 2^32, beyond every count the model forms.
\* unsigned len = 20 * count.val_ulong(): the product kept to 32 bits, as its
\* two halves of 16 bits
xrefLen(n) ==
  With(20 * (n % 65536), LAMBDA lo :
    [hi |-> (20 * (n \div 65536) + lo \div 65536) % 65536, lo |-> lo % 65536])

\* The value of len, for a len that fits the bytes of a stream
unsignedVal(len) == len.hi * 65536 + len.lo

\* stream.sgetn(s.data(), len) < len, with avail bytes left in the stream
sgetnShort(avail, len) ==
  \/ avail \div 65536 < len.hi
  \/ avail \div 65536 = len.hi /\ avail % 65536 < len.lo

RECURSIVE parseXRefLoop(_, _)
parseXRefSection(t1, s, sections) ==
  With(read(t1), LAMBDA r2 :
  With(Numeric(r2.tok), LAMBDA count :
    IF ~uintegral(count)
    THEN [obj |-> Invalid(Err("Broken xref subsection header (count)", report_position(r2.ts))), ts |-> r2.ts]
    ELSE
      With(skipToNL(t1.buf, r2.ts.pos), LAMBDA p1 :
      With(xrefLen(val_ulong(count)), LAMBDA len :
        IF sgetnShort(Len(t1.buf) - p1, len)
        THEN [obj |-> Invalid(Err("End of input while reading xref table", -1)), ts |-> [r2.ts EXCEPT !.pos = Len(t1.buf)]]
        ELSE parseXRefLoop([r2.ts EXCEPT !.pos = p1 + unsignedVal(len)],
                           Append(sections, [start |-> val_ulong(Numeric(s)), count |-> val_ulong(count),
                                             data |-> SubSeq(t1.buf, p1 + 1, p1 + unsignedVal(len))]))))))

\* parseXRefLoop reading the trailer keyword instead of peeking at it
parseXRefLoop_readTrailer(t, sections) ==
  With(peek(t), LAMBDA pk :
    IF pk.tok = <<>> THEN [obj |-> Invalid(Err("End of input while reading xref table", -1)), ts |-> pk.ts]
    ELSE IF pk.tok = T_trailer THEN [obj |-> XRefTable(sections), ts |-> consume(pk.ts)]
    ELSE IF ~uintegral(Numeric(pk.tok))
    THEN [obj |-> Invalid(Err("Broken xref subsection header (start)", report_position(consume(pk.ts)))), ts |-> consume(pk.ts)]
    ELSE parseXRefSection(consume(pk.ts), pk.tok, sections))

parseXRefLoop(t, sections) ==
  With(peek(t), LAMBDA pk :
    IF pk.tok = <<>>
    THEN [obj |-> Invalid(Err("End of input while reading xref table", -1)), ts |-> pk.ts]
    ELSE IF pk.tok = T_trailer THEN [obj |-> XRefTable(sections), ts |-> pk.ts]
    ELSE IF ~uintegral(Numeric(pk.tok))
    THEN [obj |-> Invalid(Err("Broken xref subsection header (start)",
                              report_position(consume(pk.ts)))),
          ts |-> consume(pk.ts)]
    ELSE parseXRefSection(consume(pk.ts), pk.tok, sections))

parseXRefTable(t) ==
  With(stream(read(t).ts), LAMBDA s0 :
    parseXRefLoop([s0 EXCEPT !.pos = skipToNL(s0.buf, s0.pos)], <<>>))

\* parseTrailer taking the offset once the keyword is passed
parseTrailer_afterKeyword(t) ==
  With(read(t).ts, LAMBDA t1 :
  With(readObject(t1), LAMBDA r :
    [obj |-> Trailer(r.obj, lastpos(peek(t1).ts)), ts |-> r.ts]))

parseTrailer(t) ==
  With(read(t).ts, LAMBDA t1 :
  With(readObject(t1), LAMBDA r :
    [obj |-> Trailer(r.obj, lastpos(t1)), ts |-> r.ts]))

parseStartXRef(t) ==
  With(read(read(t).ts), LAMBDA r2 :
    IF ~uintegral(Numeric(r2.tok))
    THEN [obj |-> Invalid(Err("Broken startxref", report_position(r2.ts))), ts |-> r2.ts]
    ELSE [obj |-> StartXRef(val_ulong(Numeric(r2.tok))), ts |-> r2.ts])

readTopLevelObject(t) ==
  With(peek(t), LAMBDA pk :
    IF pk.tok = <<>> THEN [obj |-> Null, ts |-> pk.ts]
    ELSE IF uintegral(Numeric(pk.tok)) THEN parseNamedObject(pk.ts)
    ELSE IF pk.tok = T_xref THEN parseXRefTable(pk.ts)
    ELSE IF pk.tok = T_trailer THEN parseTrailer(pk.ts)
    ELSE IF pk.tok = T_startxref THEN parseStartXRef(pk.ts)
    ELSE [obj |-> Invalid(Err("Garbage or unexpected token", report_position(pk.ts))),
          ts |-> pk.ts])

(***************************************************************************)
(* The serializer: dump(os, off) of every variant, as the bytes written    *)
(***************************************************************************)
print_offset(off, text) == [i \in 1..(2 * off) |-> SP] \o text

\* The text of an error string.  The fixed part of a message is rendered as
\* the word "error"; the spliced text and the offset are rendered as they are.
errorText(e) ==
  B(<<"e", "r", "r", "o", "r">>) \o e.arg \o (IF e.at >= 0 THEN format_position(e.at) ELSE <<>>)

errorComment(e) == B(<<"%", " ", "!", "!", "!", " ">>) \o errorText(e)

zeros(n) == [i \in 1..n |-> 48]

\* snprintf(buf, 20, "%0*li", width, v): zero-padded to width, cut to 19 bytes
NumBufLen == 20
snprintf0li(width, v) ==
  With(decimalDigits(IF v < 0 THEN 0 - v ELSE v), LAMBDA digits :
  With(IF v < 0 THEN <<45>> ELSE <<>>, LAMBDA sign :
  With(width - Len(sign) - Len(digits), LAMBDA pad :
    Take(sign \o zeros(IF pad > 0 THEN pad ELSE 0) \o digits, NumBufLen - 1))))

\* Numeric::dump.  str.insert past the start throws std::out_of_range: nothing is written.
dumpNumeric(n, off) ==
  With(snprintf0li(n.dp + (IF n.val_s < 0 THEN 1 ELSE 0) + 1, n.val_s), LAMBDA str :
    IF n.dp > 0
    THEN IF n.dp > Len(str) THEN <<>>
         ELSE print_offset(off, Take(str, Len(str) - n.dp) \o <<46>>
                                \o Drop(str, Len(str) - n.dp))
    ELSE print_offset(off, str))

hexDigit(v) == IF v < 10 THEN 48 + v ELSE 65 + (v - 10)

RECURSIVE dumpHexBytes(_)
dumpHexBytes(val) ==
  IF val = <<>> THEN <<>>
  ELSE <<hexDigit(Head(val) \div 16), hexDigit(Head(val) % 16), SP>> \o dumpHexBytes(Tail(val))

\* char is signed: c >= 32 fails for the bytes 128..255
RECURSIVE dumpLiteralBytes(_)
dumpLiteralBytes(val) ==
  IF val = <<>> THEN <<>>
  ELSE LET c == Head(val)
       IN (IF c >= 32 /\ c <= 127 /\ c \notin {40, 41, 92}
           THEN <<c>>
           ELSE <<92, 48 + (c \div 64), 48 + ((c \div 8) % 8), 48 + (c % 8)>>)
          \o dumpLiteralBytes(Tail(val))

dumpString(s, off) ==
  (IF s.hex
   THEN print_offset(off, <<60, SP>>) \o dumpHexBytes(s.val) \o <<62>>
   ELSE print_offset(off, <<40>>) \o dumpLiteralBytes(s.val) \o <<41>>)
  \o (IF s.error.msg # "" THEN <<LF>> \o print_offset(off, errorComment(s.error)) ELSE <<>>)

\* std::string operator< : lexicographic on unsigned bytes
RECURSIVE lessStr(_, _)
lessStr(a, b) ==
  IF b = <<>> THEN FALSE
  ELSE IF a = <<>> THEN TRUE
  ELSE IF Head(a) # Head(b) THEN Head(a) < Head(b)
  ELSE lessStr(Tail(a), Tail(b))

\* The keys of a std::map in iteration order
RECURSIVE sortedKeys(_)
sortedKeys(S) ==
  IF S = {} THEN <<>>
  ELSE LET m == CHOOSE k \in S : \A j \in S : j = k \/ lessStr(k, j)
       IN <<m>> \o sortedKeys(S \ {m})

RECURSIVE dump(_, _)
RECURSIVE dumpItems(_, _)
RECURSIVE dumpPairs(_, _, _)

dumpItems(items, off) ==
  IF items = <<>> THEN <<>>
  ELSE dump(Head(items), off) \o <<LF>> \o dumpItems(Tail(items), off)

dumpPairs(d, keys, off) ==
  IF keys = <<>> THEN <<>>
  ELSE print_offset(off + 1, <<47>> \o Head(keys) \o <<LF>>)
       \o dump(d[Head(keys)], off + 2) \o <<LF>>
       \o dumpPairs(d, Tail(keys), off)

dumpDictionary(o, off) ==
  print_offset(off, <<60, 60, LF>>)
  \o dumpPairs(o.val, sortedKeys(DOMAIN o.val), off)
  \o (IF o.error.msg # "" THEN print_offset(off + 1, errorComment(o.error) \o <<LF>>) ELSE <<>>)
  \o print_offset(off, <<62, 62>>)

dump(o, off) ==
  CASE o.t = "Null" -> print_offset(off, T_null)
    [] o.t = "Invalid" ->
         print_offset(off, T_null) \o <<LF>> \o print_offset(off, errorComment(o.error))
    [] o.t = "Boolean" -> print_offset(off, IF o.val THEN T_true ELSE T_false)
    [] o.t = "Numeric" -> dumpNumeric(o, off)
    [] o.t = "String" -> dumpString(o, off)
    [] o.t = "Name" -> print_offset(off, <<47>> \o o.val)
    [] o.t = "Array" ->
         print_offset(off, <<91, LF>>)
         \o dumpItems(o.val, off + 1)
         \o (IF o.error.msg # "" THEN print_offset(off + 1, errorComment(o.error) \o <<LF>>)
             ELSE <<>>)
         \o print_offset(off, <<93>>)
    [] o.t = "Dictionary" -> dumpDictionary(o, off)
    [] o.t = "Stream" ->
         dumpDictionary(o.dict, off)
         \o <<LF>> \o T_stream \o <<LF>> \o o.data \o <<LF>> \o T_endstream
         \o (IF o.error.msg # "" THEN <<LF>> \o print_offset(off, errorComment(o.error))
             ELSE <<>>)
    [] o.t = "Indirect" ->
         print_offset(off, <<>>) \o decimalDigits(o.num) \o <<SP>> \o decimalDigits(o.gen)
         \o <<SP, 82>>

\* NamedObject::dump
dumpNamedObject(o) ==
  decimalDigits(o.num) \o <<SP>> \o decimalDigits(o.gen) \o <<SP>> \o T_obj \o <<LF>>
  \o dump(o.contents, 1) \o <<LF>>
  \o (IF o.error.msg # "" THEN errorComment(o.error) \o <<LF>> ELSE <<>>)
  \o T_endobj \o <<LF>>

(***************************************************************************)
(* std::istream interface                                                  *)
(***************************************************************************)
\* std::istream::sentry with skipws: leading isspace bytes are extracted
RECURSIVE sentrySkip(_, _)
sentrySkip(buf, p) ==
  IF p < Len(buf) /\ isspace(buf[p + 1]) THEN sentrySkip(buf, p + 1) ELSE p

\* operator>>(std::istream&, TopLevelObject&) on a stream at p with state bits st,
\* cur being the value tlo holds.  ran: the sentry let the read happen; ts: the
\* TokenParser as it is destroyed; abort: the destructor's assert fails.
\* The state bits operator>> sets for the object it has read
readState(o) ==
  IF ~usable(o)
  THEN IF failedTop(o) THEN {"failbit"} ELSE {"eofbit"}
  ELSE IF failedTop(o) THEN {"badbit"} ELSE {}

extract(buf, p, st, cur) ==
  IF st # {}
  THEN [ran |-> FALSE, tlo |-> cur, pos |-> p, ios |-> st \cup {"failbit"},
        abort |-> FALSE, ts |-> TokenParser(buf, p)]
  ELSE
    With(sentrySkip(buf, p), LAMBDA p1 :
      IF p1 >= Len(buf)
      THEN [ran |-> FALSE, tlo |-> cur, pos |-> p1, ios |-> {"eofbit", "failbit"},
            abort |-> FALSE, ts |-> TokenParser(buf, p1)]
      ELSE With(readTopLevelObject(TokenParser(buf, p1)), LAMBDA r :
             [ran |-> TRUE, tlo |-> r.obj, pos |-> destroy(r.ts), ios |-> readState(r.obj),
              abort |-> Len(r.ts.stack) > 1, ts |-> r.ts]))

\* pdf::skipToEndObj on a stream whose state was not cleared: the sentry fails
skipToEndObj_notCleared(buf, p, st) == [pos |-> p, ios |-> {"failbit"}]

\* pdf::skipToEndObj as a manipulator: [pos, ios]
skipToEndObj(buf, p, st) ==
  IF st # {} THEN [pos |-> p, ios |-> st \cup {"failbit"}]
  ELSE With(sentrySkip(buf, p), LAMBDA p1 :
         IF p1 >= Len(buf) THEN [pos |-> p1, ios |-> {"eofbit", "failbit"}]
         ELSE With(skipToEndobj(buf, p1), LAMBDA r :
                [pos |-> r.pos, ios |-> IF r.found THEN {} ELSE {"failbit"}]))

(***************************************************************************)
(* What a tokenizer would deliver                                          *)
(***************************************************************************)
\* The next n tokens a TokenParser in state t returns from read()
RECURSIVE nextTokens(_, _)
nextTokens(t, n) ==
  IF n = 0 THEN <<>>
  ELSE With(read(t), LAMBDA r : <<r.tok>> \o nextTokens(r.ts, n - 1))

\* All tokens a TokenParser in state t returns from read() up to the end of input
RECURSIVE remaining(_)
remaining(t) ==
  With(read(t), LAMBDA r : IF r.tok = <<>> THEN <<>> ELSE <<r.tok>> \o remaining(r.ts))

\* The pushback of t in the order read() returns it
RECURSIVE reverse(_)
reverse(s) == IF s = <<>> THEN <<>> ELSE Append(reverse(Tail(s)), Head(s))
pending(t) == reverse(t.stack)

(***************************************************************************)
(* The break tool's read loop (main): one iteration per step               *)
(***************************************************************************)
NoTs == TokenParser(<<>>, 0)

\* if(pdf::Version v{}; !(ifs >> v)) ifs.clear(): the position the header
\* read leaves the stream at.  A first line starting with % is read whole.
readHeader(buf) ==
  With(sentrySkip(buf, 0), LAMBDA p1 :
    IF to_char_type(sgetc(buf, p1)) # 37 THEN p1
    ELSE readToNL(buf, p1).pos)

ReadHeader ==
  /\ pc = "header"
  /\ pos' = readHeader(input)
  /\ ios' = {}
  /\ pc' = "loop"
  /\ UNCHANGED <<input, scen, tlo, ts, op, tok, obj, hist, out, ghost>>

\* One iteration of while(true): x is what ifs >> tlo did; pc, pos and ios are
\* the program's after the branch taken on tlo.
loopStep(buf, p, st, cur) ==
  With(extract(buf, p, st, cur), LAMBDA x :
    IF x.abort THEN [x |-> x, pc |-> "abort", pos |-> x.ts.pos, ios |-> x.ios]
    ELSE IF "eofbit" \in x.ios THEN [x |-> x, pc |-> "done", pos |-> x.pos, ios |-> x.ios]
    ELSE IF x.tlo.t = "NamedObject"
    THEN [x |-> x, pc |-> "loop", pos |-> x.pos, ios |-> {}]
    ELSE IF x.tlo.t = "Invalid"
    THEN \* ifs.clear(); if(ifs >> pdf::skipToEndObj) ... else break
         With(skipToEndObj(buf, x.pos, {}), LAMBDA sk :
           [x |-> x, pc |-> IF sk.ios = {} THEN "loop" ELSE "done",
            pos |-> sk.pos, ios |-> sk.ios])
    ELSE [x |-> x, pc |-> "loop", pos |-> x.pos, ios |-> x.ios])

ReadLoop ==
  /\ pc = "loop"
  /\ \E s \in {loopStep(input, pos, ios, tlo)} :
        /\ tlo' = s.x.tlo
        /\ pos' = s.pos
        /\ ios' = s.ios
        /\ pc' = s.pc
        /\ hist' = IF s.x.ran THEN Append(hist, s.x.tlo) ELSE hist
        /\ ghost' = [ran |-> s.x.ran,
                     maxStack |-> IF s.x.ts.maxStack > ghost.maxStack
                                  THEN s.x.ts.maxStack ELSE ghost.maxStack,
                     pending |-> pending(s.x.ts),
                     raws |-> ghost.raws + s.x.ts.raws,
                     rawPending |-> IF s.x.ts.rawPending > ghost.rawPending
                                    THEN s.x.ts.rawPending ELSE ghost.rawPending,
                     rawAtToken |-> ghost.rawAtToken /\ s.x.ts.rawAtToken,
                     from |-> pos,
                     after |-> s.x.pos]
  /\ UNCHANGED <<input, scen, ts, op, tok, obj, out>>

(***************************************************************************)
(* Inputs assembled from words                                             *)
(***************************************************************************)
MaxWords == 4

Words ==
  { B(<<"1", " ", "0", " ", "o", "b", "j", "\n">>),
    B(<<"e", "n", "d", "o", "b", "j", "\n">>),
    B(<<"t", "r", "a", "i", "l", "e", "r", "\n">>),
    B(<<"7", " ">>),
    B(<<"1", "2", " ">>),
    B(<<"R", " ">>),
    B(<<"[", " ">>),
    B(<<"]", " ">>),
    B(<<"x", "y", " ">>) }

WordSeqs(n) == UNION {[1..k -> Words] : k \in 1..n}

InitLoop(sc) ==
  /\ scen = sc
  /\ input = sc.input
  /\ pos = 0
  /\ ios = {}
  /\ pc = "header"
  /\ tlo = Null
  /\ ts = NoTs
  /\ op = "init"
  /\ tok = <<>>
  /\ obj = Null
  /\ hist = <<>>
  /\ out = <<>>
  /\ ghost = [ran |-> FALSE, maxStack |-> 0, pending |-> <<>>, from |-> 0, after |-> 0,
              raws |-> 0, rawPending |-> 0, rawAtToken |-> TRUE]

Init == \E ws \in WordSeqs(MaxWords) : InitLoop([kind |-> "words", input |-> Concat(ws)])

Next == ReadHeader \/ ReadLoop

Spec == Init /\ [][Next]_vars


DestructionRewind ==
  (ghost.ran /\ ghost.pending # <<>>) =>
     /\ pc # "abort"
     /\ nextTokens(TokenParser(input, ghost.after), Len(ghost.pending)) = ghost.pending

\* The part of C10 the code keeps: with exactly one token pending, the token
\* is lexed again by the next tokenizer.
DestructionRewindOne ==
  (ghost.ran /\ Len(ghost.pending) = 1) =>
     /\ pc # "abort"
     /\ nextTokens(TokenParser(input, ghost.after), 1) = ghost.pending

\* A TokenParser was destroyed with two tokens pending
DestroyedWithTwoPending == ghost.ran /\ Len(ghost.pending) = 2


(***************************************************************************)
(* A TokenParser driven one call at a time: peek(), read() and             *)
(* readObject() in any order over an input of lexicon tokens               *)
(***************************************************************************)
MaxToks == 4

TokWords ==
  { B(<<"1", " ">>),
    B(<<"2", "3", " ">>),
    B(<<"-", "4", " ">>),
    B(<<"1", ".", "5", " ">>),
    B(<<"R", " ">>),
    B(<<"x", " ">>) }

TokSeqs(n) == UNION {[1..k -> TokWords] : k \in 1..n}

\* [1 2 3 4 R 5]
ExampleInput ==
  B(<<"[", "1", " ", "2", " ", "3", " ", "4", " ", "R", " ", "5", "]">>)

TokInputs == {Concat(ws) : ws \in TokSeqs(MaxToks)} \cup {ExampleInput}

InitTok ==
  \E buf \in TokInputs :
    /\ scen = [kind |-> "toks", input |-> buf]
    /\ input = buf
    /\ pos = 0
    /\ ios = {}
    /\ pc = "tok"
    /\ tlo = Null
    /\ ts = TokenParser(buf, 0)
    /\ op = "init"
    /\ tok = <<>>
    /\ obj = Null
    /\ hist = <<>>
    /\ out = <<>>
    /\ ghost = [before |-> TokenParser(buf, 0), prevOp |-> "init", prevTok |-> <<>>]

\* ghost: the tokenizer before the call, the call before it and its token
TokGhost == [before |-> ts, prevOp |-> op, prevTok |-> tok]

Peek ==
  /\ pc = "tok"
  /\ \E r \in {peek(ts)} : tok' = r.tok /\ ts' = r.ts
  /\ op' = "peek"
  /\ obj' = Null
  /\ ghost' = TokGhost
  /\ UNCHANGED <<input, scen, pos, ios, pc, tlo, hist, out>>

Read ==
  /\ pc = "tok"
  /\ \E r \in {read(ts)} : tok' = r.tok /\ ts' = r.ts
  /\ op' = "read"
  /\ obj' = Null
  /\ ghost' = TokGhost
  /\ UNCHANGED <<input, scen, pos, ios, pc, tlo, hist, out>>

ReadObject ==
  /\ pc = "tok"
  /\ \E r \in {readObject(ts)} : obj' = r.obj /\ ts' = r.ts
  /\ op' = "readObject"
  /\ tok' = <<>>
  /\ ghost' = TokGhost
  /\ UNCHANGED <<input, scen, pos, ios, pc, tlo, hist, out>>

NextTok == Peek \/ Read \/ ReadObject

SpecTok == InitTok /\ [][NextTok]_vars


(***************************************************************************)
(* C6: Indirect versus number                                              *)
(***************************************************************************)
\* The tokens of the lexicon and of the example that are unsigned integers,
\* those that are numbers, and their values (value, digits after the point)
UIntToks == {B(<<"1">>), B(<<"2">>), B(<<"3">>), B(<<"4">>), B(<<"5">>), B(<<"2", "3">>)}
NumToks == UIntToks \cup {B(<<"-", "4">>), B(<<"1", ".", "5">>)}
UIntOf(t) ==
  CASE t = B(<<"1">>) -> 1 [] t = B(<<"2">>) -> 2 [] t = B(<<"3">>) -> 3
    [] t = B(<<"4">>) -> 4 [] t = B(<<"5">>) -> 5 [] t = B(<<"2", "3">>) -> 23
NumOf(t) ==
  CASE t \in UIntToks -> NumericVal(UIntOf(t), 0)
    [] t = B(<<"-", "4">>) -> NumericVal(-4, 0)
    [] t = B(<<"1", ".", "5">>) -> NumericVal(15, 1)

\* The next three tokens are an unsigned integer, an unsigned integer and R
NumGenR(toks) ==
  /\ Len(toks) >= 3
  /\ toks[1] \in UIntToks
  /\ toks[2] \in UIntToks
  /\ toks[3] = T_R

\* C6: readObject returns Indirect{a, b} exactly when the next three tokens
\* are an unsigned integer a, an unsigned integer b and R, and then the three
\* tokens are consumed; in every other case a numeric first token yields
\* Numeric(n1) alone and the tokens after it are still to be read, so that
\* [1 2 3 4 R 5] gives [Numeric 1, Numeric 2, Indirect(3, 4), Numeric 5].
IndirectOrNumber ==
  (pc = "tok" /\ op = "readObject") =>
    With(remaining(ghost.before), LAMBDA toks :
      /\ (obj.t = "Indirect") <=> NumGenR(toks)
      /\ NumGenR(toks) =>
           /\ obj = Indirect(UIntOf(toks[1]), UIntOf(toks[2]))
           /\ remaining(ts) = Drop(toks, 3)
      /\ (toks # <<>> /\ ~NumGenR(toks)) =>
           (toks[1] \in NumToks =>
              /\ obj = NumOf(toks[1])
              /\ remaining(ts) = Tail(toks))
      /\ (input = ExampleInput /\ ghost.before = TokenParser(input, 0)) =>
           obj = Array(<<NumericVal(1, 0), NumericVal(2, 0), Indirect(3, 4),
                         NumericVal(5, 0)>>, NoErr))

\* readObject has read the array of the example
ExampleArrayRead ==
  /\ pc = "tok"
  /\ op = "readObject"
  /\ input = ExampleInput
  /\ ghost.before = TokenParser(input, 0)
  /\ obj.t = "Array"
  /\ Len(obj.val) = 4

(***************************************************************************)
(* C7: pushback soundness                                                  *)
(***************************************************************************)
\* C7: whenever readObject took a number and rejected the num gen R
\* lookahead, the tokenizer afterwards delivers exactly the tokens it would
\* have delivered right after the number was consumed: the next peek returns
\* t2, and the reads after it return t2, t3 and the rest of the input.
PushbackSound ==
  (pc = "tok" /\ op = "readObject" /\ obj.t = "Numeric") =>
    With(remaining(ghost.before), LAMBDA toks :
    With(read(ghost.before).ts, LAMBDA afterN1 :
      /\ remaining(ts) = remaining(afterN1)
      /\ remaining(ts) = Tail(toks)
      /\ peek(ts).tok = IF Len(toks) >= 2 THEN toks[2] ELSE <<>>
      /\ remaining(peek(ts).ts) = Tail(toks)))

\* The lookahead was rejected after t2 and t3 were read: both are pushed back
LookaheadRejectedAtT3 ==
  /\ pc = "tok"
  /\ op = "readObject"
  /\ obj.t = "Numeric"
  /\ Len(ts.stack) = 2
  /\ Len(remaining(ghost.before)) = 4
  /\ remaining(ghost.before)[2] # remaining(ghost.before)[3]

(***************************************************************************)
(* C8: peek is idempotent                                                  *)
(***************************************************************************)
\* C8: a peek() that follows a peek() returns the same token and leaves the
\* byte-source position, the pushback and lastLen as they were; a read()
\* that follows a peek() returns the token the peek returned.
PeekIdempotent ==
  /\ (pc = "tok" /\ op = "peek" /\ ghost.prevOp = "peek") =>
        /\ tok = ghost.prevTok
        /\ ts.pos = ghost.before.pos
        /\ ts.stack = ghost.before.stack
        /\ ts.lastLen = ghost.before.lastLen
  /\ (pc = "tok" /\ op = "read" /\ ghost.prevOp = "peek") =>
        tok = ghost.prevTok

\* A token was peeked twice in a row
PeekedTwice ==
  /\ pc = "tok"
  /\ op = "peek"
  /\ ghost.prevOp = "peek"
  /\ tok # <<>>
  /\ ts.stack = <<tok>>


(***************************************************************************)
(* Inputs holding one named object whose contents are a stream             *)
(***************************************************************************)
MaxPayload == 3

\* The pieces payloads are made of; the last one holds the bytes endstream
\* inside a longer run of regular characters
PayloadAtoms ==
  { B(<<"a">>), <<CR>>, <<LF>>,
    B(<<"e", "n", "d", "s", "t", "r", "e", "a", "m", "x">>) }

Payloads == {<<>>} \cup {Concat(ws) : ws \in UNION {[1..k -> PayloadAtoms] : k \in 1..MaxPayload}}

\* The line end after the stream keyword, and the one before endstream
StreamEOLs == {<<LF>>, <<CR, LF>>}
EndEOLs == {<<>>, <<LF>>, <<CR, LF>>, <<CR>>}

\* The stream dictionary, by its /Length entry
LengthKinds == {"none", "negative", "name", "ok"}
StreamDict(kind, len) ==
  CASE kind = "none" -> B(<<"<", "<", " ", ">", ">">>)
    [] kind = "negative" ->
         B(<<"<", "<", "/", "L", "e", "n", "g", "t", "h", " ", "-", "1", ">", ">">>)
    [] kind = "name" ->
         B(<<"<", "<", "/", "L", "e", "n", "g", "t", "h", "/", "x", ">", ">">>)
    [] kind = "ok" ->
         B(<<"<", "<", "/", "L", "e", "n", "g", "t", "h", " ">>) \o decimalDigits(len)
           \o B(<<">", ">">>)

StreamTails == {B(<<"\n", "e", "n", "d", "o", "b", "j", "\n">>),
                B(<<" ", "e", "n", "d", "o", "b", "j", "\n">>)}

StreamInput(kind, sl, payload, eol, tail) ==
  B(<<"1", " ", "0", " ", "o", "b", "j", "\n">>) \o StreamDict(kind, Len(payload))
    \o B(<<"\n", "s", "t", "r", "e", "a", "m">>) \o sl \o payload \o eol
    \o T_endstream \o tail

InitStream ==
  \E kind \in LengthKinds, sl \in StreamEOLs, payload \in Payloads,
     eol \in EndEOLs, tail \in StreamTails :
    InitLoop([kind |-> "stream", length |-> kind, sl |-> sl, payload |-> payload,
              eol |-> eol, input |-> StreamInput(kind, sl, payload, eol, tail)])

SpecStream == InitStream /\ [][Next]_vars


(***************************************************************************)
(* C2: stream read by scanning for endstream                               *)
(***************************************************************************)
\* s without one closing line end: CR LF, LF or CR
StripOneEOL(s) ==
  IF Len(s) >= 2 /\ s[Len(s) - 1] = CR /\ s[Len(s)] = LF THEN SubSeq(s, 1, Len(s) - 2)
  ELSE IF Len(s) >= 1 /\ s[Len(s)] \in {CR, LF} THEN SubSeq(s, 1, Len(s) - 1)
  ELSE s

\* The first top-level read of a stream input has finished, the dictionary
\* having no usable /Length
SentinelRead ==
  /\ scen.kind = "stream"
  /\ scen.length \in {"none", "negative", "name"}
  /\ hist # <<>>

\* C2 (as stated): without a usable /Length and with endstream occurring only
\* as the terminator, the Stream has an empty error and its data equals the
\* payload byte for byte, for every payload, a line end standing between
\* the payload and endstream.
SentinelPayloadExact ==
  (SentinelRead /\ scen.eol # <<>>) =>
     /\ hist[1].t = "NamedObject"
     /\ hist[1].contents.t = "Stream"
     /\ hist[1].contents.error = NoErr
     /\ hist[1].contents.data = scen.payload

\* C2 (amended): without a usable /Length and with endstream occurring only
\* as the terminator, the Stream has an empty error and its data equals the
\* bytes between the stream line and endstream without one closing line end
\* (CR LF, LF or CR); so the data equals the payload unless the payload ends
\* in CR and a bare LF follows it, or no line end follows it and it ends in
\* CR or LF.
SentinelPayloadTrimmed ==
  SentinelRead =>
     /\ hist[1].t = "NamedObject"
     /\ hist[1].contents.t = "Stream"
     /\ hist[1].contents.error = NoErr
     /\ hist[1].error = NoErr
     /\ hist[1].contents.data = StripOneEOL(scen.payload \o scen.eol)
     /\ (scen.eol \in {<<CR, LF>>, <<CR>>}) => hist[1].contents.data = scen.payload
     /\ (scen.eol = <<LF>> /\ (scen.payload = <<>> \/ scen.payload[Len(scen.payload)] # CR))
           => hist[1].contents.data = scen.payload

\* A payload ending in CR, followed by LF and endstream, was read by scanning
SentinelReadOfPayloadEndingInCR ==
  /\ SentinelRead
  /\ scen.eol = <<LF>>
  /\ scen.payload # <<>>
  /\ scen.payload[Len(scen.payload)] = CR
  /\ hist[1].contents.data = SubSeq(scen.payload, 1, Len(scen.payload) - 1)

(***************************************************************************)
(* C3: stream read by /Length                                              *)
(***************************************************************************)
\* C3: when the dictionary carries /Length L and exactly the L payload bytes
\* lie between the line end after stream and the endstream token (a line end
\* before endstream or none), the Stream's data are exactly these L bytes
\* and its error is empty.
LengthPayloadExact ==
  (scen.kind = "stream" /\ scen.length = "ok" /\ hist # <<>>) =>
     /\ hist[1].t = "NamedObject"
     /\ hist[1].contents.t = "Stream"
     /\ hist[1].contents.error = NoErr
     /\ hist[1].error = NoErr
     /\ hist[1].contents.data = scen.payload
     /\ hist[1].contents.dict =
          Dictionary((K_Length :> NumericVal(Len(scen.payload), 0)), NoErr)

\* A payload ending in a line end, after a stream line ending in CR LF, was
\* read by /Length
LengthReadOfPayloadEndingInEOL ==
  /\ scen.kind = "stream"
  /\ scen.length = "ok"
  /\ hist # <<>>
  /\ scen.sl = <<CR, LF>>
  /\ Len(scen.payload) >= 2
  /\ scen.payload[Len(scen.payload)] \in {CR, LF}
  /\ scen.payload[1] \in {CR, LF}
  /\ hist[1].contents.data = scen.payload


(***************************************************************************)
(* Inputs holding a named object that a stray token ends instead of        *)
(* endobj, followed by a well-formed named object                          *)
(***************************************************************************)
MaxNum == 3

\* Contents of the first object: the text and the value it stands for
ContentsCases ==
  { [text |-> B(<<"4", "2">>), value |-> NumericVal(42, 0)],
    [text |-> B(<<"/", "N">>), value |-> Name(B(<<"N">>))],
    [text |-> B(<<"[", "1", " ", "2", "]">>),
     value |-> Array(<<NumericVal(1, 0), NumericVal(2, 0)>>, NoErr)],
    [text |-> B(<<"<", "<", " ", ">", ">">>), value |-> Dictionary(<<>>, NoErr)],
    [text |-> B(<<"(", "s", ")">>), value |-> String(B(<<"s">>), FALSE, NoErr)],
    [text |-> B(<<"n", "u", "l", "l">>), value |-> Null],
    [text |-> B(<<"t", "r", "u", "e">>), value |-> Boolean(TRUE)],
    [text |-> B(<<"4", " ", "5", " ", "R">>), value |-> Indirect(4, 5)] }

\* The single token that stands where endobj should
StrayTokens ==
  { B(<<"g", "a", "r", "b", "a", "g", "e">>), B(<<"7">>), T_R, T_obj, T_rbracket,
    T_gtgt, T_slash, T_stream, B(<<"e", "n", "d", "o", "b", "j", "x">>) }

\* The well-formed object that follows: 3 0 obj, contents, endobj
SecondCases ==
  { [text |-> B(<<"9", "9">>), value |-> NumericVal(99, 0)],
    [text |-> B(<<"/", "N">>), value |-> Name(B(<<"N">>))] }

Separators == {<<LF>>, <<SP>>}

NoEndobjInput(num, gen, c, sep, stray, c2) ==
  decimalDigits(num) \o <<SP>> \o decimalDigits(gen) \o <<SP>> \o T_obj \o <<LF>>
    \o c.text \o sep \o stray \o sep
    \o B(<<"3", " ", "0", " ", "o", "b", "j", "\n">>) \o c2.text \o <<LF>>
    \o T_endobj \o <<LF>>

\* stream after a dictionary starts stream data and is no stray token
InitNoEndobj ==
  \E num \in 0..MaxNum, gen \in 0..1, c \in ContentsCases, sep \in Separators,
     stray \in StrayTokens, c2 \in SecondCases :
    /\ ~(c.value.t = "Dictionary" /\ stray = T_stream)
    /\ InitLoop([kind |-> "noendobj", num |-> num, gen |-> gen, contents |-> c.value,
                 stray |-> stray, second |-> c2.value,
                 input |-> NoEndobjInput(num, gen, c, sep, stray, c2)])

SpecNoEndobj == InitNoEndobj /\ [][Next]_vars

(***************************************************************************)
(* C4: missing endobj                                                      *)
(***************************************************************************)
\* C4: when the contents of a named object are followed by a stray token
\* instead of endobj, the top-level read returns NamedObject{num, gen,
\* contents} with the error "endobj not found", and the next top-level read
\* returns the following well-formed named object with an empty error; the
\* loop reaches the end of the input with both objects read.
MissingEndobjKept ==
  scen.kind = "noendobj" =>
     /\ pc # "abort"
     /\ Len(hist) >= 1 =>
          /\ hist[1].t = "NamedObject"
          /\ hist[1].num = scen.num
          /\ hist[1].gen = scen.gen
          /\ hist[1].contents = scen.contents
          /\ hist[1].error.msg = "endobj not found"
     /\ Len(hist) >= 2 => hist[2] = NamedObject(3, 0, scen.second, NoErr)
     /\ pc = "done" => Len(hist) = 2

\* Both objects were read where the first has a number as contents and a
\* number as stray token, so that its lookahead reached into the second
BothReadAfterNumericStray ==
  /\ scen.kind = "noendobj"
  /\ pc = "done"
  /\ scen.contents = NumericVal(42, 0)
  /\ scen.stray = B(<<"7">>)
  /\ Len(hist) = 2
  /\ hist[1].error.msg = "endobj not found"
  /\ hist[2].error = NoErr


(***************************************************************************)
(* Inputs holding nested arrays and dictionaries whose innermost one has   *)
(* an element, key or value that fails                                     *)
(***************************************************************************)
MaxDepth == 2
MaxSiblings == 2

\* The elements and entries that precede the failing one: text and value
ArraySibling(i) ==
  IF i % 2 = 1 THEN [text |-> B(<<"/", "N">>), value |-> Name(B(<<"N">>))]
  ELSE [text |-> B(<<"7">>), value |-> NumericVal(7, 0)]
DictSibling(i) ==
  [key |-> <<64 + i>>, text |-> <<47, 64 + i>> \o B(<<" ", "7">>), value |-> NumericVal(7, 0)]
K_K == B(<<"K">>)

RECURSIVE SiblingText(_, _, _)
SiblingText(kind, n, i) ==
  IF i > n THEN <<>>
  ELSE (IF kind = "array" THEN ArraySibling(i).text ELSE DictSibling(i).text)
         \o <<SP>> \o SiblingText(kind, n, i + 1)

\* The ways the innermost composite fails
ArrayLeaves == {"garbage"}
DictLeaves == {"keygarbage", "keynumber", "valgarbage", "valmissing"}
LeafText(leaf) ==
  CASE leaf = "garbage" -> B(<<"x">>)
    [] leaf = "keygarbage" -> B(<<"x">>)
    [] leaf = "keynumber" -> B(<<"1", " ", "2", " ", "x">>)
    [] leaf = "valgarbage" -> B(<<"/", "K", " ", "x">>)
    [] leaf = "valmissing" -> B(<<"/", "K">>)

\* levels[i]: the kind of the composite at depth i and the number of its
\* elements or entries before the failing one
LevelChoices == [kind : {"array", "dict"}, n : 0..MaxSiblings]
LevelSeqs == UNION {[1..k -> LevelChoices] : k \in 1..MaxDepth}

RECURSIVE LocalText(_, _, _)
LocalText(levels, i, leaf) ==
  IF levels[i].kind = "array"
  THEN B(<<"[", " ">>) \o SiblingText("array", levels[i].n, 1)
         \o (IF i = Len(levels) THEN LeafText(leaf) ELSE LocalText(levels, i + 1, leaf))
         \o B(<<" ", "]">>)
  ELSE B(<<"<", "<", " ">>) \o SiblingText("dict", levels[i].n, 1)
         \o (IF i = Len(levels) THEN LeafText(leaf)
             ELSE B(<<"/", "K", " ">>) \o LocalText(levels, i + 1, leaf))
         \o B(<<" ", ">", ">">>)

LocalInput(wrapper, levels, leaf) ==
  IF wrapper = "obj"
  THEN B(<<"1", " ", "0", " ", "o", "b", "j", "\n">>) \o LocalText(levels, 1, leaf)
         \o <<LF>> \o T_endobj \o <<LF>>
  ELSE T_trailer \o <<LF>> \o LocalText(levels, 1, leaf) \o <<LF>>

InitLocal ==
  \E wrapper \in {"obj", "trailer"}, levels \in LevelSeqs, leaf \in ArrayLeaves \cup DictLeaves :
    /\ leaf \in (IF levels[Len(levels)].kind = "array" THEN ArrayLeaves ELSE DictLeaves)
    /\ InitLoop([kind |-> "local", wrapper |-> wrapper, levels |-> levels, leaf |-> leaf,
                 input |-> LocalInput(wrapper, levels, leaf)])

SpecLocal == InitLocal /\ [][Next]_vars


(***************************************************************************)
(* C5: failure locality                                                    *)
(***************************************************************************)
SiblingKeys(n) == {DictSibling(j).key : j \in 1..n}

\* o is the composite of depth i of the scenario: it reports failed(), holds
\* the elements or entries that precede the failing one unchanged and in
\* order, and after them the failing element (for a failing key, nothing)
RECURSIVE LocalChain(_, _, _, _)
LocalChain(o, levels, i, leaf) ==
  IF levels[i].kind = "array"
  THEN /\ o.t = "Array"
       /\ failed(o)
       /\ Len(o.val) = levels[i].n + 1
       /\ \A j \in 1..levels[i].n : o.val[j] = ArraySibling(j).value
       /\ IF i = Len(levels) THEN o.val[Len(o.val)].t = "Invalid"
          ELSE LocalChain(o.val[Len(o.val)], levels, i + 1, leaf)
  ELSE /\ o.t = "Dictionary"
       /\ failed(o)
       /\ \A j \in 1..levels[i].n :
            /\ DictSibling(j).key \in DOMAIN o.val
            /\ o.val[DictSibling(j).key] = DictSibling(j).value
       /\ IF i = Len(levels) /\ leaf \in {"keygarbage", "keynumber"}
          THEN DOMAIN o.val = SiblingKeys(levels[i].n)
          ELSE /\ DOMAIN o.val = SiblingKeys(levels[i].n) \cup {K_K}
               /\ IF i = Len(levels) THEN o.val[K_K].t = "Invalid"
                  ELSE LocalChain(o.val[K_K], levels, i + 1, leaf)

\* The first top-level read returned the NamedObject or Trailer around the
\* chain of failed composites
LocalReturned ==
  /\ hist # <<>>
  /\ failedTop(hist[1])
  /\ IF scen.wrapper = "obj"
     THEN /\ hist[1].t = "NamedObject"
          /\ LocalChain(hist[1].contents, scen.levels, 1, scen.leaf)
     ELSE /\ hist[1].t = "Trailer"
          /\ LocalChain(hist[1].dict, scen.levels, 1, scen.leaf)

\* C5: when an element of an array or a key or value of a dictionary fails
\* to parse, the read of the enclosing NamedObject or Trailer comes back,
\* with that Array/Dictionary and every composite around it reporting
\* failed(), the elements and entries parsed before the failing one kept
\* unchanged and in order, and the construct returned, not an Invalid.
FailureLocal ==
  (scen.kind = "local" /\ pc # "header") =>
     /\ pc # "abort"
     /\ ghost.ran => LocalReturned

\* The part of C5 the code keeps: whenever the read comes back, it returns
\* the construct with the failed chain and the earlier siblings.
FailureLocalWhenReturned ==
  (scen.kind = "local" /\ pc \notin {"header", "abort"} /\ hist # <<>>) => LocalReturned

\* A Trailer read ended with the tokenizer destroyed while two tokens were
\* pushed back, after a dictionary key that is a number
TrailerKeyNumberAborts ==
  /\ scen.kind = "local"
  /\ scen.wrapper = "trailer"
  /\ scen.leaf = "keynumber"
  /\ pc = "abort"


(***************************************************************************)
(* Round trip: a named object is read, written with dump, and the text     *)
(* written is read again                                                   *)
(***************************************************************************)
\* Contents other than streams: every variant readObject produces
RTContents ==
  { B(<<"4", "2">>), B(<<"-", "1", ".", "5">>), B(<<".", "5">>),
    B(<<"/", "N">>), B(<<"(", "s", ")">>), B(<<"(", "\\", "n", "(", ")", ")">>),
    B(<<"<", "4", "1", " ", "4", ">">>), B(<<"n", "u", "l", "l">>),
    B(<<"t", "r", "u", "e">>), B(<<"f", "a", "l", "s", "e">>),
    B(<<"4", " ", "5", " ", "R">>),
    B(<<"[", "1", " ", "2", " ", "R", " ", "(", "s", ")", " ", "[", "]", "]">>),
    B(<<"<", "<", "/", "B", " ", "7", "/", "A", "[", "n", "u", "l", "l", "]", ">", ">">>) }

RTObjectInput(c) ==
  B(<<"1", " ", "0", " ", "o", "b", "j", "\n">>) \o c \o <<LF>> \o T_endobj \o <<LF>>

RTInputs ==
  {RTObjectInput(c) : c \in RTContents}
  \cup {StreamInput(kind, sl, payload, eol, tail) :
          kind \in {"none", "ok"}, sl \in StreamEOLs, payload \in Payloads,
          eol \in EndEOLs, tail \in StreamTails}

InitRT ==
  \E buf \in RTInputs :
    /\ scen = [kind |-> "roundtrip", input |-> buf]
    /\ input = buf
    /\ pos = 0
    /\ ios = {}
    /\ pc = "parse"
    /\ tlo = Null
    /\ ts = NoTs
    /\ op = "init"
    /\ tok = <<>>
    /\ obj = Null
    /\ hist = <<>>
    /\ out = <<>>
    /\ ghost = [ran |-> FALSE, maxStack |-> 0, pending |-> <<>>, from |-> 0, after |-> 0,
              raws |-> 0, rawPending |-> 0, rawAtToken |-> TRUE]

\* ifs >> tlo on the input; only an object read without errors goes on
Parse ==
  /\ pc = "parse"
  /\ \E x \in {extract(input, 0, {}, Null)} :
       /\ obj' = x.tlo
       /\ pos' = x.pos
       /\ pc' = IF x.tlo.t = "NamedObject" /\ ~failedTop(x.tlo) /\ ~x.abort
                THEN "dump" ELSE "rejected"
  /\ UNCHANGED <<input, scen, ios, tlo, ts, op, tok, hist, out, ghost>>

\* ofs << tlo << '\n'
Dump ==
  /\ pc = "dump"
  /\ out' = dumpNamedObject(obj) \o <<LF>>
  /\ pc' = "reparse"
  /\ UNCHANGED <<input, scen, pos, ios, tlo, ts, op, tok, obj, hist, ghost>>

\* ifs >> tlo on the text written
Reparse ==
  /\ pc = "reparse"
  /\ \E x \in {extract(out, 0, {}, Null)} :
       /\ tlo' = x.tlo
       /\ ios' = x.ios
  /\ pc' = "done"
  /\ UNCHANGED <<input, scen, pos, ts, op, tok, obj, hist, out, ghost>>

NextRT == Parse \/ Dump \/ Reparse

SpecRT == InitRT /\ [][NextRT]_vars

(***************************************************************************)
(* C1: round trip                                                          *)
(***************************************************************************)
\* a and b are equal up to the form (literal or hexadecimal) of strings;
\* dictionaries are maps, so the order of keys plays no part
RECURSIVE Equivalent(_, _)
Equivalent(a, b) ==
  IF a.t # b.t THEN FALSE
  ELSE CASE a.t = "String" -> a.val = b.val /\ a.error = b.error
         [] a.t = "Array" ->
              /\ Len(a.val) = Len(b.val)
              /\ a.error = b.error
              /\ \A i \in 1..Len(a.val) : Equivalent(a.val[i], b.val[i])
         [] a.t = "Dictionary" ->
              /\ DOMAIN a.val = DOMAIN b.val
              /\ a.error = b.error
              /\ \A k \in DOMAIN a.val : Equivalent(a.val[k], b.val[k])
         [] a.t = "Stream" ->
              /\ Equivalent(a.dict, b.dict)
              /\ a.data = b.data
              /\ a.error = b.error
         [] OTHER -> a = b

\* C1: for every object the parser produces with failed() = false, parsing
\* the text written by dump yields an object equal to it up to dictionary
\* key order and string-escape form.
RoundTrip ==
  pc = "done" =>
     /\ tlo.t = "NamedObject"
     /\ ~failedTop(tlo)
     /\ Equivalent(tlo.contents, obj.contents)

\* A Stream without /Length whose data end in CR
SentinelDataEndsInCR(o) ==
  /\ o.t = "Stream"
  /\ K_Length \notin DOMAIN o.dict.val
  /\ o.data # <<>>
  /\ o.data[Len(o.data)] = CR

\* The part of C1 the code keeps: the round trip of every object but a
\* Stream without /Length whose data end in CR.
RoundTripUnlessDataEndsInCR ==
  (pc = "done" /\ ~SentinelDataEndsInCR(obj.contents)) =>
     /\ tlo.t = "NamedObject"
     /\ ~failedTop(tlo)
     /\ Equivalent(tlo.contents, obj.contents)

\* A Stream without /Length whose data end in CR was written and read again
StreamEndingInCRRead == pc = "done" /\ SentinelDataEndsInCR(obj.contents)


(***************************************************************************)
(* C11: lastpos()                                                          *)
(***************************************************************************)
\* The offsets at which the tokens of buf begin, scanning from offset p: a
\* token begins at a byte that is no white space and that follows white
\* space, follows a delimiter, is a delimiter, or is the first byte.  (The
\* inputs of SpecTok hold no comments and no << or >>.)
RECURSIVE TokenStarts(_, _)
TokenStarts(buf, p) ==
  IF p >= Len(buf) THEN <<>>
  ELSE IF charType(buf[p + 1]) # "ws"
          /\ (p = 0 \/ charType(buf[p]) # "regular" \/ charType(buf[p + 1]) = "delim")
       THEN <<p>> \o TokenStarts(buf, p + 1)
       ELSE TokenStarts(buf, p + 1)

\* The offset of the first byte of the token the last read() returned: the
\* tokens still to come are counted back from the end of the input
LastTokenStart ==
  With(TokenStarts(input, 0), LAMBDA starts : starts[Len(starts) - Len(remaining(ts))])

\* C11: after any read() that returns a non-empty token, from the byte source
\* or from the pushback, lastpos() is the offset of the first byte of that
\* token in the input.
LastposIsTokenStart ==
  (pc = "tok" /\ op = "read" /\ tok # <<>>) => lastpos(ts) = LastTokenStart

\* The part of C11 the code keeps: lastpos() is the offset of the token read
\* unless the token was taken from the pushback with another token under it.
LastposUnlessTwoPushedBack ==
  (pc = "tok" /\ op = "read" /\ tok # <<>> /\ Len(ghost.before.stack) < 2)
     => lastpos(ts) = LastTokenStart

\* A token was read from the pushback while a second token lay under it
ReadWithTwoPushedBack ==
  /\ pc = "tok"
  /\ op = "read"
  /\ tok # <<>>
  /\ Len(ghost.before.stack) = 2
  /\ lastpos(ts) # LastTokenStart

(***************************************************************************)
(* C12: garbage at the top level and the resynchronisation to endobj       *)
(***************************************************************************)
\* endobj occupies bytes q+1..q+6 of buf and a non-regular byte or the end of
\* input follows it
EndobjAt(buf, q) ==
  /\ q + 6 <= Len(buf)
  /\ SubSeq(buf, q + 1, q + 6) = T_endobj
  /\ (q + 6 = Len(buf) \/ charType(buf[q + 7]) # "regular")

\* The offsets just past such an occurrence that begins at p or later
EndobjEnds(buf, p) == {q + 6 : q \in {q \in p..Len(buf) : EndobjAt(buf, q)}}

\* The token the dispatcher peeked in the iteration just run
DispatchToken == peek(TokenParser(input, sentrySkip(input, ghost.from))).tok

\* The iteration just run read a top level object and its first token starts
\* none of the dispatcher's constructs
GarbageMet ==
  /\ pc \in {"loop", "done"} /\ ghost.ran
  /\ DispatchToken \notin {<<>>, T_xref, T_trailer, T_startxref}
  /\ ~uintegral(Numeric(DispatchToken))

\* C12 as stated: when the top level dispatcher meets a token that starts none of its constructs
\* it yields Invalid and, when ifs >> tlo returns to its caller, the stream is
\* already just past the next endobj or at the end of input
GarbageRecoveredBeforeReturn ==
  GarbageMet =>
    /\ tlo.t = "Invalid"
    /\ ghost.after \in {Len(input)} \cup EndobjEnds(input, sentrySkip(input, ghost.from))

\* C12: when the top level dispatcher meets a token that starts none of its
\* constructs it yields Invalid and returns with the stream at the start of that
\* token; the read loop's Invalid branch then clears the stream state and runs
\* skipToEndObj, so that before the next read the stream is just past the first
\* endobj at or after that token, or the loop ends at the end of input when
\* there is none
GarbageRecoveredByCaller ==
  GarbageMet =>
    /\ tlo.t = "Invalid"
    /\ ghost.after = sentrySkip(input, ghost.from)
    /\ tlo.error.at = ghost.after
    /\ IF EndobjEnds(input, ghost.after) # {}
       THEN pc = "loop" /\ ios = {} /\ pos = Min(EndobjEnds(input, ghost.after))
       ELSE pc = "done" /\ pos = Len(input)

GarbageSkippedToLaterEndobj ==
  /\ GarbageMet /\ tlo.t = "Invalid" /\ pc = "loop"
  /\ pos > ghost.after + 6
  /\ SubSeq(input, pos - 5, pos) = T_endobj

(***************************************************************************)
(* C13: skipToEndobj from every position of every input                    *)
(***************************************************************************)
MaxAtoms == 4

SkipAtoms == { T_endobj, B(<<"x">>), B(<<"/">>), <<CR>>, <<LF>> }

SkipInputs == {Concat(as) : as \in UNION {[1..k -> SkipAtoms] : k \in 1..MaxAtoms}}

InitSkip ==
  \E in \in SkipInputs : \E p \in 0..Len(in) :
    /\ scen = [kind |-> "skip", input |-> in]
    /\ input = in
    /\ pos = p
    /\ ios = {}
    /\ pc = "skip"
    /\ tlo = Null
    /\ ts = NoTs
    /\ op = "init"
    /\ tok = <<>>
    /\ obj = Null
    /\ hist = <<>>
    /\ out = <<>>
    /\ ghost = [from |-> p, found |-> FALSE]

\* bool success = skipToEndobj(stream)
SkipToEndobj ==
  /\ pc = "skip"
  /\ \E r \in {skipToEndobj(input, pos)} :
        /\ pos' = r.pos
        /\ ghost' = [from |-> pos, found |-> r.found]
  /\ pc' = "skipped"
  /\ op' = "skipToEndobj"
  /\ UNCHANGED <<input, scen, ios, tlo, ts, tok, obj, hist, out>>

NextSkip == SkipToEndobj

SpecSkip == InitSkip /\ [][NextSkip]_vars

\* C13: on every input and from every start position skipToEndobj returns; it
\* returns true exactly when an endobj followed by a non-regular byte or by the
\* end of input begins at or after the start position, and the stream is then
\* immediately after the first such occurrence; it returns false only with the
\* stream at the end of input
SkipToEndobjResult ==
  pc = "skipped" =>
    /\ pos \in ghost.from..Len(input)
    /\ ghost.found <=> EndobjEnds(input, ghost.from) # {}
    /\ ghost.found => pos = Min(EndobjEnds(input, ghost.from))
    /\ ~ghost.found => pos = Len(input)

\* An endobj run into a regular byte was passed over and a later one was found
SpuriousEndobjPassed ==
  /\ pc = "skipped" /\ ghost.found /\ pos < Len(input)
  /\ \E q \in ghost.from..(pos - 12) :
        SubSeq(input, q + 1, q + 6) = T_endobj /\ ~EndobjAt(input, q)

(***************************************************************************)
(* DecoderChain: chain is the vector of stream buffers, the std::stringbuf *)
(* of the raw data first; inner the name last() returns; thrown the text   *)
(* of the decode_error the constructor threw ("" when it returned)         *)
(***************************************************************************)
K_Filter == B(<<"F", "i", "l", "t", "e", "r">>)
N_FlateDecode == B(<<"F", "l", "a", "t", "e", "D", "e", "c", "o", "d", "e">>)

\* chain_append that takes every filter for a known one
chain_append_any(chain, filter) == [ok |-> TRUE, chain |-> Append(chain, "DeflateDecoder")]

\* DecoderChain::chain_append: ok is the bool returned
chain_append(chain, filter) ==
  IF filter = N_FlateDecode
  THEN [ok |-> TRUE, chain |-> Append(chain, "DeflateDecoder")]
  ELSE [ok |-> FALSE, chain |-> chain]

\* The for loop over the items of an Array /Filter, from item i on
RECURSIVE chainItems(_, _, _, _)
chainItems(raw, items, i, chain) ==
  IF i > Len(items) THEN [raw |-> raw, chain |-> chain, inner |-> <<>>, thrown |-> ""]
  ELSE IF items[i].t # "Name"
  THEN [raw |-> raw, chain |-> chain, inner |-> <<>>, thrown |-> "Invalid /Filter"]
  ELSE With(chain_append(chain, items[i].val), LAMBDA a :
         IF ~a.ok THEN [raw |-> raw, chain |-> chain, inner |-> items[i].val, thrown |-> ""]
         ELSE chainItems(raw, items, i + 1, a.chain))

\* DecoderChain::DecoderChain(const Stream&)
DecoderChain(stm) ==
  With(lookup(stm.dict, K_Filter), LAMBDA filters :
    IF ~usable(filters)
    THEN [raw |-> stm.data, chain |-> <<"stringbuf">>, inner |-> <<>>, thrown |-> ""]
    ELSE IF filters.t = "Name"
    THEN With(chain_append(<<"stringbuf">>, filters.val), LAMBDA a :
           [raw |-> stm.data, chain |-> a.chain,
            inner |-> IF a.ok THEN <<>> ELSE filters.val, thrown |-> ""])
    ELSE IF filters.t = "Array"
    THEN chainItems(stm.data, filters.val, 1, <<"stringbuf">>)
    ELSE [raw |-> stm.data, chain |-> <<"stringbuf">>, inner |-> <<>>,
          thrown |-> "Invalid /Filter"])

last(dd) == dd.inner
complete(dd) == last(dd) = <<>>

\* The bytes rdbuf() delivers.  A chain of the std::stringbuf alone delivers
\* the raw data; what a DeflateDecoder delivers is zlib's doing, and no chain
\* of the model with a decoder in it is read from.
rdbuf(dd) == CASE Len(dd.chain) = 1 -> dd.raw

(***************************************************************************)
(* ObjStream: the record of its members, thrown being the text of the      *)
(* exception the constructor threw ("" when it returned)                   *)
(***************************************************************************)
K_N == B(<<"N">>)
K_First == B(<<"F", "i", "r", "s", "t">>)

ObjStreamThrown(what) ==
  [thrown |-> what, stm |-> Null, dd |-> Null, ts |-> NoTs, nums |-> <<>>,
   first |-> 0, ix |-> 0, fail |-> FALSE]

\* The constructor's for loop: count more (number, offset) pairs
RECURSIVE readPairs(_, _, _)
readPairs(t, count, nums) ==
  IF count = 0 THEN [thrown |-> "", ts |-> t, nums |-> nums]
  ELSE With(read(t), LAMBDA r1 :
         IF ~uintegral(Numeric(r1.tok))
         THEN [thrown |-> "Broken object stream header", ts |-> r1.ts, nums |-> nums]
         ELSE With(read(r1.ts), LAMBDA r2 :
                IF ~uintegral(Numeric(r2.tok))
                THEN [thrown |-> "Broken object stream header", ts |-> r2.ts, nums |-> nums]
                ELSE readPairs(r2.ts, count - 1,
                               Append(nums, val_ulong(Numeric(r1.tok))))))

\* ObjStream::ObjStream(const Stream&)
ObjStream(stm) ==
  With(DecoderChain(stm), LAMBDA dd :
  With(lookup(stm.dict, K_N), LAMBDA oN :
  With(lookup(stm.dict, K_First), LAMBDA oFirst :
    IF dd.thrown # "" THEN ObjStreamThrown(dd.thrown)
    ELSE IF ~complete(dd) THEN ObjStreamThrown("Couldn't unpack object stream")
    ELSE IF oN.t # "Numeric" \/ ~uintegral(oN) \/ oFirst.t # "Numeric" \/ ~uintegral(oFirst)
    THEN ObjStreamThrown("Object stream lacks required fields")
    ELSE With(readPairs(TokenParser(rdbuf(dd), 0), val_ulong(oN), <<>>), LAMBDA h :
           IF h.thrown # "" THEN ObjStreamThrown(h.thrown)
           ELSE [thrown |-> "", stm |-> stm, dd |-> dd, ts |-> h.ts, nums |-> h.nums,
                 first |-> val_ulong(oFirst), ix |-> 0, fail |-> FALSE]))))

\* TokenParser::newstream: the tokenizer is pointed at the stream buffer given
\* and forgets the tokens pushed back
newstream(t, buf) == TokenParser(buf, 0)

\* rewind() that leaves the fail flag as it is
ObjStream_rewind_keepFail(o) ==
  With(DecoderChain(o.stm), LAMBDA dd2 :
    [o EXCEPT !.dd = dd2,
              !.ts = [newstream(o.ts, rdbuf(dd2)) EXCEPT
                        !.pos = IF o.first < Len(rdbuf(dd2)) THEN o.first ELSE Len(rdbuf(dd2))],
              !.ix = 0])

\* ObjStream::rewind: first times sbumpc() on the new chain
ObjStream_rewind(o) ==
  With(DecoderChain(o.stm), LAMBDA dd2 :
    [o EXCEPT !.dd = dd2,
              !.ts = [newstream(o.ts, rdbuf(dd2)) EXCEPT
                        !.pos = IF o.first < Len(rdbuf(dd2)) THEN o.first ELSE Len(rdbuf(dd2))],
              !.ix = 0,
              !.fail = FALSE])

\* read() that goes on past the last object
ObjStream_read_unbounded(o) ==
  IF o.fail THEN [tlo |-> Invalid(Err("Read on a failed ObjStream", -1)), o |-> o]
  ELSE With(readObject(o.ts), LAMBDA r :
         [tlo |-> NamedObject(IF o.ix < Len(o.nums) THEN o.nums[o.ix + 1] ELSE 0, 0, r.obj, NoErr),
          o |-> [o EXCEPT !.ts = r.ts, !.fail = failed(r.obj),
                          !.ix = IF failed(r.obj) THEN @ ELSE @ + 1]])

\* read() that numbers every object with the first header number
ObjStream_read_firstNum(o) ==
  IF o.fail THEN [tlo |-> Invalid(Err("Read on a failed ObjStream", -1)), o |-> o]
  ELSE IF o.ix = Len(o.nums) THEN [tlo |-> Null, o |-> [o EXCEPT !.fail = TRUE]]
  ELSE With(readObject(o.ts), LAMBDA r :
         [tlo |-> NamedObject(o.nums[1], 0, r.obj, NoErr),
          o |-> [o EXCEPT !.ts = r.ts, !.fail = failed(r.obj),
                          !.ix = IF failed(r.obj) THEN @ ELSE @ + 1]])

\* read() that does not mark the reader failed when the object has failed
ObjStream_read_noFail(o) ==
  IF o.fail THEN [tlo |-> Invalid(Err("Read on a failed ObjStream", -1)), o |-> o]
  ELSE IF o.ix = Len(o.nums) THEN [tlo |-> Null, o |-> [o EXCEPT !.fail = TRUE]]
  ELSE With(readObject(o.ts), LAMBDA r :
         [tlo |-> NamedObject(o.nums[o.ix + 1], 0, r.obj, NoErr),
          o |-> [o EXCEPT !.ts = r.ts, !.ix = @ + 1]])

\* ObjStream::read: tlo the TopLevelObject returned, o the reader after
ObjStream_read(o) ==
  IF o.fail THEN [tlo |-> Invalid(Err("Read on a failed ObjStream", -1)), o |-> o]
  ELSE IF o.ix = Len(o.nums) THEN [tlo |-> Null, o |-> [o EXCEPT !.fail = TRUE]]
  ELSE With(readObject(o.ts), LAMBDA r :
         [tlo |-> NamedObject(o.nums[o.ix + 1], 0, r.obj, NoErr),
          o |-> [o EXCEPT !.ts = r.ts, !.fail = failed(r.obj),
                          !.ix = IF failed(r.obj) THEN @ ELSE @ + 1]])

(***************************************************************************)
(* Object streams: a reader constructed on a Stream, then read and rewound *)
(***************************************************************************)
MaxObjs == 2
MaxOps == 5

\* The object numbers of a header: text and value
HeaderNums == { [text |-> B(<<"1", "0">>), val |-> 10], [text |-> B(<<"7">>), val |-> 7] }

\* The bodies: text, the object the text stands for, ok when it parses without error
Bodies ==
  { [text |-> B(<<"n", "u", "l", "l">>), obj |-> Null, ok |-> TRUE],
    [text |-> B(<<"<", "<", ">", ">">>), obj |-> Dictionary(<<>>, NoErr), ok |-> TRUE],
    [text |-> B(<<"5">>), obj |-> NumericVal(5, 0), ok |-> TRUE],
    [text |-> B(<<")">>), obj |-> Null, ok |-> FALSE],
    [text |-> B(<<"[", "5">>), obj |-> Null, ok |-> FALSE] }

\* What stands between the header and the first body
Gaps == { [text |-> <<LF>>, ws |-> TRUE], [text |-> B(<<"x", "\n">>), ws |-> FALSE] }

RECURSIVE HeaderText(_)
HeaderText(ns) ==
  IF ns = <<>> THEN <<>>
  ELSE Head(ns).text \o B(<<" ", "0", " ">>) \o HeaderText(Tail(ns))

RECURSIVE BodiesText(_)
BodiesText(bs) == IF bs = <<>> THEN <<>> ELSE Head(bs).text \o <<SP>> \o BodiesText(Tail(bs))

ObjStmDict(n, first) ==
  Dictionary((K_N :> NumericVal(n, 0)) @@ (K_First :> NumericVal(first, 0)), NoErr)

InitObjStm ==
  \E n \in 0..MaxObjs : \E ns \in [1..n -> HeaderNums] : \E m \in 0..MaxObjs :
  \E bs \in [1..m -> Bodies] : \E gap \in Gaps : \E atBody \in BOOLEAN :
  \E first \in {IF atBody THEN Len(HeaderText(ns) \o gap.text) ELSE Len(HeaderText(ns))} :
  \E stm \in {Stream(ObjStmDict(n, first), HeaderText(ns) \o gap.text \o BodiesText(bs), NoErr)} :
    /\ scen = [kind |-> "objstm", stm |-> stm, nums |-> [k \in 1..n |-> ns[k].val],
               bodies |-> bs, gapWs |-> gap.ws, first |-> first,
               bodyStart |-> Len(HeaderText(ns) \o gap.text)]
    /\ input = stm.data
    /\ obj = ObjStream(stm)
    /\ pc = "objstm"
    /\ pos = 0
    /\ ios = {}
    /\ tlo = Null
    /\ ts = NoTs
    /\ op = "init"
    /\ tok = <<>>
    /\ hist = <<>>
    /\ out = <<>>
    /\ ghost = [ops |-> 0, rewound |-> FALSE, prevOp |-> "init", before |-> Null,
                atRewind |-> Null]

\* tlo = objstm.read()
ObjRead ==
  /\ pc = "objstm" /\ obj.thrown = "" /\ ghost.ops < MaxOps
  /\ \E r \in {ObjStream_read(obj)} :
        /\ obj' = r.o
        /\ tlo' = r.tlo
        /\ hist' = Append(hist, r.tlo)
  /\ op' = "read"
  /\ ghost' = [ghost EXCEPT !.ops = @ + 1, !.prevOp = op, !.before = obj]
  /\ UNCHANGED <<input, scen, pos, ios, pc, ts, tok, out>>

\* objstm.rewind()
ObjRewind ==
  /\ pc = "objstm" /\ obj.thrown = "" /\ ghost.ops < MaxOps
  /\ obj' = ObjStream_rewind(obj)
  /\ hist' = <<>>
  /\ op' = "rewind"
  /\ ghost' = [ghost EXCEPT !.ops = @ + 1, !.prevOp = op, !.before = obj,
                            !.rewound = TRUE, !.atRewind = obj]
  /\ UNCHANGED <<input, scen, pos, ios, pc, tlo, ts, tok, out>>

NextObjStm == ObjRead \/ ObjRewind

SpecObjStm == InitObjStm /\ [][NextObjStm]_vars

\* The header is followed by white space alone, /First is the offset of the
\* first body, and there is a body that parses for every header pair
WellFormed ==
  /\ scen.gapWs /\ scen.first = scen.bodyStart
  /\ Len(scen.bodies) >= Len(scen.nums)
  /\ \A k \in 1..Len(scen.nums) : scen.bodies[k].ok

\* The object a read that starts at offset /First of the decoded data parses
ObjectAtFirst ==
  readObject(TokenParser(input, IF scen.first < Len(input) THEN scen.first ELSE Len(input))).obj

ReadAfterLastObject ==
  pc = "objstm" /\ op = "read" /\ ghost.before.ix = Len(ghost.before.nums)

\* C15 as stated: once all N objects have been returned every further read()
\* returns Null, as long as rewind() is not called
EveryReadAtEndIsNull ==
  ReadAfterLastObject => tlo = Null

\* C15: once all N objects have been returned the next read() returns Null and
\* marks the reader failed; every read() after that one returns an Invalid,
\* "Read on a failed ObjStream", until rewind() is called
FirstReadAtEndIsNull ==
  ReadAfterLastObject =>
    /\ ~ghost.before.fail => tlo = Null /\ obj.fail
    /\ ghost.before.fail => tlo = Invalid(Err("Read on a failed ObjStream", -1))
    /\ obj.ix = ghost.before.ix

SecondReadAtEnd ==
  /\ ReadAfterLastObject /\ ghost.before.fail /\ Len(ghost.before.nums) > 0
  /\ Len(hist) = Len(scen.nums) + 2
  /\ hist[Len(hist) - 1] = Null /\ tlo.t = "Invalid"

\* The read just done parsed an object and the parse failed
EmbeddedParseFailed ==
  /\ pc = "objstm" /\ op = "read"
  /\ ~ghost.before.fail /\ ghost.before.ix < Len(ghost.before.nums)
  /\ failed(readObject(ghost.before.ts).obj)

\* C16 as stated: when parsing an embedded object fails, that read() marks the
\* reader failed and returns an Invalid
FailedReadReturnsInvalid ==
  EmbeddedParseFailed => obj.fail /\ tlo.t = "Invalid"

\* C16: when parsing an embedded object fails, that read() marks the reader
\* failed, leaves the index where it was and returns the NamedObject of the
\* object's number holding the failed object; it is the reads after it that
\* return an Invalid
FailedReadReturnsFailedObject ==
  /\ EmbeddedParseFailed =>
       /\ obj.fail /\ obj.ix = ghost.before.ix
       /\ tlo.t = "NamedObject" /\ tlo.num = obj.nums[obj.ix + 1] /\ tlo.gen = 0
       /\ failed(tlo.contents) /\ tlo.error = NoErr
  /\ (pc = "objstm" /\ op = "read" /\ ghost.before.fail) =>
       tlo = Invalid(Err("Read on a failed ObjStream", -1)) /\ obj = ghost.before

PartialArrayReturned ==
  /\ EmbeddedParseFailed /\ obj.fail
  /\ tlo.t = "NamedObject" /\ tlo.contents.t = "Array" /\ Len(tlo.contents.val) > 0

\* The read just done is the first one since construction
FirstReadSinceConstruction ==
  pc = "objstm" /\ op = "read" /\ ~ghost.rewound /\ Len(hist) = 1 /\ Len(scen.nums) > 0

\* C17: after construction, with no rewind, the first read() parses object 0
\* from byte offset /First of the decoded payload, whatever the header and
\* /First are
FirstReadStartsAtFirst ==
  FirstReadSinceConstruction => tlo = NamedObject(scen.nums[1], 0, ObjectAtFirst, NoErr)

\* The first read() after construction parses from where the header ended,
\* which gives the object at /First when white space alone lies between
FirstReadStartsAfterHeader ==
  (FirstReadSinceConstruction /\ scen.gapWs) =>
    tlo = NamedObject(scen.nums[1], 0, ObjectAtFirst, NoErr)

MaxFilters == 3

FilterNames ==
  { N_FlateDecode,
    B(<<"D", "C", "T", "D", "e", "c", "o", "d", "e">>),
    B(<<"F", "l", "a", "t", "e">>) }

FilterLists == UNION {[1..k -> FilterNames] : k \in 0..MaxFilters}

\* The shapes of /Filter: the value stored under the key, if any, and the
\* filters it lists when it is of one of the three shapes DecoderChain takes
FilterShapes ==
  {[shape |-> "absent", fs |-> <<>>, val |-> Null]}
  \cup {[shape |-> "name", fs |-> <<n>>, val |-> Name(n)] : n \in FilterNames}
  \cup {[shape |-> "array", fs |-> fs, val |-> Array([i \in 1..Len(fs) |-> Name(fs[i])], NoErr)] :
          fs \in FilterLists}
  \cup {[shape |-> "other", fs |-> <<>>, val |-> NumericVal(1, 0)],
        [shape |-> "other", fs |-> <<>>, val |-> Array(<<Name(N_FlateDecode), NumericVal(1, 0)>>, NoErr)]}

FilterPayloads == { <<>>, B(<<"a", "b">>) }

FilterDict(f) ==
  IF f.shape = "absent" THEN Dictionary(<<>>, NoErr)
  ELSE Dictionary(K_Filter :> f.val, NoErr)

InitFilter ==
  \E f \in FilterShapes : \E data \in FilterPayloads :
    /\ scen = [kind |-> "filter", shape |-> f.shape, fs |-> f.fs,
               stm |-> Stream(FilterDict(f), data, NoErr)]
    /\ input = data
    /\ obj = Null
    /\ pc = "stream"
    /\ pos = 0
    /\ ios = {}
    /\ tlo = Null
    /\ ts = NoTs
    /\ op = "init"
    /\ tok = <<>>
    /\ hist = <<>>
    /\ out = <<>>
    /\ ghost = [ops |-> 0]

\* DecoderChain dd{stm}
BuildChain ==
  /\ pc = "stream"
  /\ obj' = DecoderChain(scen.stm)
  /\ pc' = "chained"
  /\ op' = "DecoderChain"
  /\ UNCHANGED <<input, scen, pos, ios, tlo, ts, tok, hist, out, ghost>>

NextFilter == BuildChain

SpecFilter == InitFilter /\ [][NextFilter]_vars

\* The number of filters listed before the first one that is not FlateDecode
RecognizedPrefix(fs) ==
  Max({j \in 0..Len(fs) : \A i \in 1..j : fs[i] = N_FlateDecode})

\* C19: when /Filter is absent, a Name or an Array of Names, the DecoderChain
\* holds the raw payload plus one decoder per recognized filter, left to right
\* up to the first unrecognized one; last() is that filter's name, or empty when
\* there is none; complete() is true exactly when every listed filter was
\* recognized
ChainFollowsFilters ==
  (pc = "chained" /\ scen.shape # "other") =>
    /\ obj.thrown = ""
    /\ obj.raw = scen.stm.data
    /\ obj.chain = <<"stringbuf">> \o [i \in 1..RecognizedPrefix(scen.fs) |-> "DeflateDecoder"]
    /\ last(obj) = (IF RecognizedPrefix(scen.fs) < Len(scen.fs)
                    THEN scen.fs[RecognizedPrefix(scen.fs) + 1] ELSE <<>>)
    /\ complete(obj) <=> \A i \in 1..Len(scen.fs) : scen.fs[i] = N_FlateDecode

ChainStoppedAtUnrecognized ==
  /\ pc = "chained" /\ scen.shape = "array" /\ Len(scen.fs) = 3
  /\ Len(obj.chain) = 2 /\ ~complete(obj)
  /\ scen.fs[3] = N_FlateDecode /\ last(obj) = scen.fs[2]

(***************************************************************************)
(* C20: Numeric of tokens of decimal digits                                *)
(***************************************************************************)
MaxDigits == 3

\* The tokens: nothing, a zero, or the first nine digits of 2^31 or of 2^32,
\* followed by up to MaxDigits more digits
DigitPrefixes ==
  { <<>>, B(<<"0">>),
    B(<<"2", "1", "4", "7", "4", "8", "3", "6", "4">>),
    B(<<"4", "2", "9", "4", "9", "6", "7", "2", "9">>) }

DigitSuffixes == UNION {[1..k -> {48, 54, 55, 56}] : k \in 0..MaxDigits}

DigitTokens == {p \o d : p \in DigitPrefixes, d \in DigitSuffixes} \ {<<>>}

InitNum ==
  \E t \in DigitTokens :
    /\ scen = [kind |-> "numeric", input |-> t]
    /\ input = t
    /\ tok = t
    /\ obj = Null
    /\ pc = "token"
    /\ pos = 0
    /\ ios = {}
    /\ tlo = Null
    /\ ts = NoTs
    /\ op = "init"
    /\ hist = <<>>
    /\ out = <<>>
    /\ ghost = [ops |-> 0]

\* Numeric n{t}
MakeNumeric ==
  /\ pc = "token"
  /\ obj' = Numeric(tok)
  /\ pc' = "numeric"
  /\ op' = "Numeric"
  /\ UNCHANGED <<input, scen, pos, ios, tlo, ts, tok, hist, out, ghost>>

NextNum == MakeNumeric

SpecNum == InitNum /\ [][NextNum]_vars

\* A run of digits without its leading zeros (the last digit stays)
RECURSIVE StripZeros(_)
StripZeros(s) == IF Len(s) > 1 /\ s[1] = 48 THEN StripZeros(Tail(s)) ELSE s

\* C20: for every token of decimal digits whose value v is below 2^63 (here:
\* of at most 18 significant digits), Numeric(token) is an unsigned integer
\* and val_ulong() returns v, that is, prints as the token's digits
NumericKeepsValue ==
  (pc = "numeric" /\ Len(StripZeros(tok)) <= 18) =>
    /\ uintegral(obj)
    /\ decimalDigits(val_ulong(obj)) = StripZeros(tok)

\* The same for the tokens of at most 9 significant digits, which are below 2^31
NumericKeepsValueOfInt ==
  (pc = "numeric" /\ Len(StripZeros(tok)) <= 9) =>
    /\ uintegral(obj)
    /\ decimalDigits(val_ulong(obj)) = StripZeros(tok)

(***************************************************************************)
(* Cross-reference tables: the main loop on xref ... trailer inputs        *)
(***************************************************************************)
MaxCount == 2
MaxSections == 2

\* The k-th 20-byte entry of a section
XRefEntry(k) ==
  IF k % 2 = 1
  THEN B(<<"0", "0", "0", "0", "0", "0", "0", "0", "0", "0", " ", "6", "5", "5", "3", "5", " ", "f", " ", "\n">>)
  ELSE B(<<"0", "0", "0", "0", "0", "0", "0", "0", "1", "7", " ", "0", "0", "0", "0", "0", " ", "n", "\r", "\n">>)

RECURSIVE XRefEntries(_)
XRefEntries(c) == IF c = 0 THEN <<>> ELSE XRefEntries(c - 1) \o XRefEntry(c)

\* The start of a subsection header and the line end that closes the header
XRefStarts ==
  { [text |-> B(<<"0">>), val |-> 0, eol |-> <<LF>>],
    [text |-> B(<<"3">>), val |-> 3, eol |-> <<CR, LF>>] }

\* Subsections: the header line, the entries present, and whether all the
\* 20 * count bytes the header announces are present.  The last one announces
\* 214748365 entries, with 4 bytes present.
XRefSections ==
  { [start |-> st.val, count |-> c, head |-> st.text \o <<SP>> \o decimalDigits(c) \o st.eol,
     data |-> XRefEntries(c), whole |-> TRUE] : st \in XRefStarts, c \in 0..MaxCount }
  \cup { [start |-> 0, count |-> 214748365,
          head |-> B(<<"0", " ", "2", "1", "4", "7", "4", "8", "3", "6", "5", "\n">>),
          data |-> B(<<"a", "b", "c", "\n">>), whole |-> FALSE] }

\* What follows the subsections: the trailer, the keyword alone, nothing, or
\* nothing with the last 5 bytes of the last subsection missing as well
XRefTails == {"trailer", "keyword", "none", "cut"}

RECURSIVE XRefSectionsText(_)
XRefSectionsText(ss) ==
  IF ss = <<>> THEN <<>> ELSE Head(ss).head \o Head(ss).data \o XRefSectionsText(Tail(ss))

XRefCut(ss, tail) == tail = "cut" /\ ss # <<>> /\ Len(ss[Len(ss)].data) >= 20

XRefText(ss, tail) ==
  B(<<"x", "r", "e", "f", "\n">>)
  \o (IF XRefCut(ss, tail) THEN Take(XRefSectionsText(ss), Len(XRefSectionsText(ss)) - 5)
      ELSE XRefSectionsText(ss))
  \o (IF tail = "trailer" THEN B(<<"t", "r", "a", "i", "l", "e", "r", "\n", "<", "<", " ", ">", ">", "\n">>)
      ELSE IF tail = "keyword" THEN B(<<"t", "r", "a", "i", "l", "e", "r", "\n">>)
      ELSE <<>>)

InitXRef ==
  \E k \in 0..MaxSections : \E ss \in [1..k -> XRefSections] : \E tail \in XRefTails :
    InitLoop([kind |-> "xref", input |-> XRefText(ss, tail), sections |-> ss, tail |-> tail,
              whole |-> ~XRefCut(ss, tail) /\ \A i \in 1..k : ss[i].whole])

SpecXRef == InitXRef /\ [][Next]_vars

\* C21: parseXRefTable stops at the trailer keyword and leaves it unread: after
\* a read that returned an XRefTable the stream is good and stands at the
\* keyword, and the read that follows returns the Trailer; when the input
\* ends with no trailer keyword the read of the table returns an Invalid
XRefThenTrailer ==
  /\ (ghost.ran /\ tlo.t = "XRefTable") =>
       /\ pc = "loop" /\ ios = {}
       /\ pos + Len(T_trailer) <= Len(input)
       /\ SubSeq(input, pos + 1, pos + Len(T_trailer)) = T_trailer
  /\ \A k \in 1..Len(hist) :
       (hist[k].t = "XRefTable" /\ k < Len(hist)) => hist[k + 1].t = "Trailer"
  /\ (Len(hist) >= 1 /\ scen.tail \in {"none", "cut"}) => hist[1].t = "Invalid"

TrailerReadAfterTwoSections ==
  /\ Len(hist) = 2 /\ hist[1].t = "XRefTable" /\ Len(hist[1].table) = 2
  /\ hist[1].table[2].count = 2
  /\ hist[2] = Trailer(Dictionary(<<>>, NoErr), Len(input) - 14)


\* The Sections the subsections of the input stand for
XRefExpected ==
  [i \in 1..Len(scen.sections) |->
     [start |-> scen.sections[i].start, count |-> scen.sections[i].count,
      data |-> scen.sections[i].data]]

\* C22: every Section of a returned XRefTable holds exactly 20 * count raw
\* bytes, the input bytes that follow the line end of its header, for every
\* count value; a subsection cut short by the end of input makes the whole
\* result an Invalid
XRefSectionsVerbatim ==
  (Len(hist) >= 1 /\ hist[1].t = "XRefTable") =>
    /\ \A i \in 1..Len(hist[1].table) :
         /\ Len(hist[1].table[i].data) % 20 = 0
         /\ Len(hist[1].table[i].data) \div 20 = hist[1].table[i].count
    /\ scen.whole
    /\ hist[1].table = XRefExpected

\* The same for the inputs whose counts keep 20 * count below 2^32
XRefSectionsVerbatimBelowWrap ==
  (Len(hist) >= 1 /\ \A i \in 1..Len(scen.sections) : scen.sections[i].count <= MaxCount) =>
    /\ hist[1].t = "XRefTable" => scen.whole /\ hist[1].table = XRefExpected
    /\ (scen.whole /\ scen.tail \in {"trailer", "keyword"}) => hist[1].t = "XRefTable"


(***************************************************************************)
(* C23: the offset a Trailer records                                       *)
(***************************************************************************)
\* The read just done returned a Trailer
TrailerRead == pc # "header" /\ ghost.ran /\ tlo.t = "Trailer"

\* Where the first token at or after offset p begins
TokenStartFrom(p) == lastpos(peek(TokenParser(input, p)).ts)

\* C23 as stated: start() of a Trailer the dispatcher returns is the offset at
\* which the trailer dictionary, the object after the keyword, begins
TrailerStartIsDictOffset ==
  TrailerRead => tlo.start = TokenStartFrom(TokenStartFrom(ghost.from) + Len(T_trailer))

\* C23: start() of a Trailer the dispatcher returns is the offset of the
\* trailer keyword, the first token of the read
TrailerStartIsKeywordOffset ==
  TrailerRead =>
    /\ tlo.start = TokenStartFrom(ghost.from)
    /\ tlo.start + Len(T_trailer) <= Len(input)
    /\ SubSeq(input, tlo.start + 1, tlo.start + Len(T_trailer)) = T_trailer

TrailerReadAfterObject ==
  /\ TrailerRead /\ Len(hist) = 2 /\ hist[1].t = "NamedObject"
  /\ tlo.start > 0 /\ ~failedTop(tlo)


(***************************************************************************)
(* Strings: parseStringLiteral and parseStringHex on inputs made of pieces *)
(***************************************************************************)
MaxPieces == 3

\* The pieces of a literal string after its opening parenthesis: the text, the
\* bytes the text stands for, and what the piece is: bytes, an opening or a
\* closing parenthesis, or an escape that is an error.  An octal escape of
\* fewer than three digits is short: the byte after it tells where it ends.
LiteralPieces ==
  { [text |-> B(<<"a">>), bytes |-> B(<<"a">>), kind |-> "bytes", short |-> FALSE],
    [text |-> B(<<"(">>), bytes |-> B(<<"(">>), kind |-> "open", short |-> FALSE],
    [text |-> B(<<")">>), bytes |-> B(<<")">>), kind |-> "close", short |-> FALSE],
    [text |-> B(<<"\\", "n">>), bytes |-> <<LF>>, kind |-> "bytes", short |-> FALSE],
    [text |-> B(<<"\\", "r">>), bytes |-> <<CR>>, kind |-> "bytes", short |-> FALSE],
    [text |-> B(<<"\\", "t">>), bytes |-> <<TAB>>, kind |-> "bytes", short |-> FALSE],
    [text |-> B(<<"\\", "b">>), bytes |-> <<8>>, kind |-> "bytes", short |-> FALSE],
    [text |-> B(<<"\\", "f">>), bytes |-> <<FF>>, kind |-> "bytes", short |-> FALSE],
    [text |-> B(<<"\\", "(">>), bytes |-> B(<<"(">>), kind |-> "bytes", short |-> FALSE],
    [text |-> B(<<"\\", ")">>), bytes |-> B(<<")">>), kind |-> "bytes", short |-> FALSE],
    [text |-> B(<<"\\", "\\">>), bytes |-> B(<<"\\">>), kind |-> "bytes", short |-> FALSE],
    [text |-> B(<<"\\", "1", "0", "1">>), bytes |-> B(<<"A">>), kind |-> "bytes", short |-> FALSE],
    [text |-> B(<<"\\", "7">>), bytes |-> <<7>>, kind |-> "bytes", short |-> TRUE],
    [text |-> B(<<"\\", "\r">>), bytes |-> <<>>, kind |-> "bytes", short |-> FALSE],
    [text |-> B(<<"\\", "\n">>), bytes |-> <<>>, kind |-> "bytes", short |-> FALSE],
    [text |-> B(<<"\\", "\r", "\n">>), bytes |-> <<>>, kind |-> "bytes", short |-> FALSE],
    [text |-> B(<<"\\", "x">>), bytes |-> <<>>, kind |-> "bad", short |-> FALSE],
    [text |-> B(<<"\\", "4", "0", "0">>), bytes |-> <<>>, kind |-> "bad", short |-> FALSE] }

\* What ends a literal: a closing parenthesis with more text after it, or the
\* end of input
LiteralEnds ==
  { << [text |-> B(<<")">>), bytes |-> B(<<")">>), kind |-> "close", short |-> FALSE],
       [text |-> B(<<"a">>), bytes |-> B(<<"a">>), kind |-> "bytes", short |-> FALSE],
       [text |-> B(<<")">>), bytes |-> B(<<")">>), kind |-> "close", short |-> FALSE] >>,
    <<>> }

\* The pieces of a hex string after its opening <
HexPieces ==
  { [text |-> B(<<"4">>), kind |-> "digit", val |-> 4],
    [text |-> B(<<"1">>), kind |-> "digit", val |-> 1],
    [text |-> B(<<"a">>), kind |-> "digit", val |-> 10],
    [text |-> B(<<"F">>), kind |-> "digit", val |-> 15],
    [text |-> <<NUL>>, kind |-> "ws", val |-> 0],
    [text |-> <<TAB>>, kind |-> "ws", val |-> 0],
    [text |-> <<LF>>, kind |-> "ws", val |-> 0],
    [text |-> <<CR>>, kind |-> "ws", val |-> 0],
    [text |-> <<FF>>, kind |-> "ws", val |-> 0],
    [text |-> <<SP>>, kind |-> "ws", val |-> 0],
    [text |-> B(<<">">>), kind |-> "close", val |-> 0],
    [text |-> B(<<"x">>), kind |-> "bad", val |-> 0] }

HexEnds ==
  { << [text |-> B(<<">">>), kind |-> "close", val |-> 0],
       [text |-> B(<<"4">>), kind |-> "digit", val |-> 4] >>,
    <<>> }

RECURSIVE PiecesText(_)
PiecesText(ps) == IF ps = <<>> THEN <<>> ELSE Head(ps).text \o PiecesText(Tail(ps))

StringInput(kind, ps) ==
  [kind |-> kind, pieces |-> ps,
   input |-> (IF kind = "literal" THEN T_lparen ELSE T_lt) \o PiecesText(ps)]

InitString ==
  \E k \in 0..MaxPieces : \E kind \in {"literal", "hex"} :
  \E ps \in [1..k -> IF kind = "literal" THEN LiteralPieces ELSE HexPieces] :
  \E e \in (IF kind = "literal" THEN LiteralEnds ELSE HexEnds) :
      /\ scen = StringInput(kind, ps \o e)
      /\ input = scen.input
      /\ ts = peek(TokenParser(input, 0)).ts
      /\ pc = "string"
      /\ pos = 0
      /\ ios = {}
      /\ tlo = Null
      /\ op = "init"
      /\ tok = <<>>
      /\ obj = Null
      /\ hist = <<>>
      /\ out = <<>>
      /\ ghost = [before |-> ts]

\* readObject on a ( token: return parseStringLiteral(ts)
ParseStringLiteral ==
  /\ pc = "string" /\ peek(ts).tok = T_lparen
  /\ \E r \in {parseStringLiteral(ts)} : obj' = r.obj /\ ts' = r.ts
  /\ pc' = "parsed"
  /\ op' = "parseStringLiteral"
  /\ ghost' = [before |-> ts]
  /\ UNCHANGED <<input, scen, pos, ios, tlo, tok, hist, out>>

\* readObject on a < token: return parseStringHex(ts)
ParseStringHex ==
  /\ pc = "string" /\ peek(ts).tok = T_lt
  /\ \E r \in {parseStringHex(ts)} : obj' = r.obj /\ ts' = r.ts
  /\ pc' = "parsed"
  /\ op' = "parseStringHex"
  /\ ghost' = [before |-> ts]
  /\ UNCHANGED <<input, scen, pos, ios, tlo, tok, hist, out>>

NextString == ParseStringLiteral \/ ParseStringHex

SpecString == InitString /\ [][NextString]_vars

\* The reference decoding of a literal from piece i on, depth parentheses
\* open, acc the bytes so far, off the offset reached: the bytes, the offset
\* just after the closing parenthesis, and what ended the literal
RECURSIVE RefLiteral(_, _, _, _, _)
RefLiteral(ps, i, depth, acc, off) ==
  IF i > Len(ps) THEN [val |-> acc, end |-> off, ended |-> "eof"]
  ELSE IF ps[i].kind = "close" /\ depth = 0 THEN [val |-> acc, end |-> off + 1, ended |-> "closed"]
  ELSE IF ps[i].kind = "close" THEN RefLiteral(ps, i + 1, depth - 1, acc \o ps[i].bytes, off + 1)
  ELSE IF ps[i].kind = "open" THEN RefLiteral(ps, i + 1, depth + 1, acc \o ps[i].bytes, off + 1)
  ELSE IF ps[i].kind = "bad" THEN [val |-> acc, end |-> off + Len(ps[i].text), ended |-> "bad"]
  ELSE IF ps[i].short /\ i = Len(ps) THEN [val |-> acc, end |-> off + Len(ps[i].text), ended |-> "eof"]
  ELSE RefLiteral(ps, i + 1, depth, acc \o ps[i].bytes, off + Len(ps[i].text))

LiteralParsed == pc = "parsed" /\ scen.kind = "literal"

\* C24: for every input ( ... ), parseStringLiteral ends just after the first
\* unescaped ) at depth zero and returns the reference decoding: balanced
\* parentheses kept, \n \r \t \b \f as LF CR TAB BS FF, \( \) \\ as the byte,
\* \ddd as the octal byte, and a backslash followed by CR, LF or CRLF as no
\* byte at all
LiteralDecoded ==
  (LiteralParsed /\ RefLiteral(scen.pieces, 1, 0, <<>>, 1).ended = "closed") =>
    /\ obj = String(RefLiteral(scen.pieces, 1, 0, <<>>, 1).val, FALSE, NoErr)
    /\ ts.pos = RefLiteral(scen.pieces, 1, 0, <<>>, 1).end
    /\ ts.stack = <<>>

\* The same for the inputs without a backslash followed by CRLF
NoBackslashCRLF ==
  \A i \in 1..Len(scen.pieces) : scen.pieces[i].text # B(<<"\\", "\r", "\n">>)

LiteralDecodedUnlessCRLF ==
  (LiteralParsed /\ NoBackslashCRLF /\ RefLiteral(scen.pieces, 1, 0, <<>>, 1).ended = "closed") =>
    /\ obj = String(RefLiteral(scen.pieces, 1, 0, <<>>, 1).val, FALSE, NoErr)
    /\ ts.pos = RefLiteral(scen.pieces, 1, 0, <<>>, 1).end
    /\ ts.stack = <<>>


\* C25: parseStringLiteral returns a String for every input, never an
\* Invalid; on a premature end of input, an unknown escape character or an
\* octal value above 255 the String carries an error and its bytes are the
\* bytes decoded before the point of the error
LiteralErrorKeepsBytes ==
  LiteralParsed =>
    /\ obj.t = "String" /\ ~obj.hex
    /\ RefLiteral(scen.pieces, 1, 0, <<>>, 1).ended # "closed" =>
         /\ obj.error.msg # ""
         /\ obj.val = RefLiteral(scen.pieces, 1, 0, <<>>, 1).val

\* The same for the inputs without a backslash followed by CRLF
LiteralErrorKeepsBytesUnlessCRLF ==
  (LiteralParsed /\ NoBackslashCRLF) =>
    /\ obj.t = "String" /\ ~obj.hex
    /\ RefLiteral(scen.pieces, 1, 0, <<>>, 1).ended # "closed" =>
         /\ obj.error.msg # ""
         /\ obj.val = RefLiteral(scen.pieces, 1, 0, <<>>, 1).val
    /\ RefLiteral(scen.pieces, 1, 0, <<>>, 1).ended = "eof" =>
         obj.error = Err("End of input while reading string", -1)

\* The reference decoding of a hex string from piece i on: acc the bytes so
\* far, odd whether a digit waits for its pair, d that digit, off the offset
RECURSIVE RefHex(_, _, _, _, _, _)
RefHex(ps, i, acc, odd, d, off) ==
  IF i > Len(ps) THEN [val |-> acc, end |-> off, ended |-> "eof"]
  ELSE IF ps[i].kind = "close"
  THEN [val |-> IF odd THEN Append(acc, 16 * d) ELSE acc, end |-> off + 1, ended |-> "closed"]
  ELSE IF ps[i].kind = "bad" THEN [val |-> acc, end |-> off + 1, ended |-> "bad"]
  ELSE IF ps[i].kind = "ws" THEN RefHex(ps, i + 1, acc, odd, d, off + 1)
  ELSE IF odd THEN RefHex(ps, i + 1, Append(acc, 16 * d + ps[i].val), FALSE, 0, off + 1)
  ELSE RefHex(ps, i + 1, acc, TRUE, ps[i].val, off + 1)

HexParsed == pc = "parsed" /\ scen.kind = "hex"

\* C26: for every input < ... >, parseStringHex skips the bytes of the
\* tokenizer's white space (NUL, TAB, LF, CR, FF, SPACE) between digits, turns
\* each pair of hex digits into a byte, pads an odd last digit with a zero low
\* nibble, and sets an error only for a byte that is no hex digit, white space
\* or >, or for the end of input
HexDecoded ==
  HexParsed =>
    /\ obj.t = "String" /\ obj.hex
    /\ (obj.error.msg # "") <=> (RefHex(scen.pieces, 1, <<>>, FALSE, 0, 1).ended # "closed")
    /\ RefHex(scen.pieces, 1, <<>>, FALSE, 0, 1).ended = "closed" =>
         /\ obj.val = RefHex(scen.pieces, 1, <<>>, FALSE, 0, 1).val
         /\ ts.pos = RefHex(scen.pieces, 1, <<>>, FALSE, 0, 1).end

\* The same for the inputs without a NUL
NoNUL == \A i \in 1..Len(scen.pieces) : scen.pieces[i].text # <<NUL>>

HexDecodedUnlessNUL ==
  (HexParsed /\ NoNUL) =>
    /\ obj.t = "String" /\ obj.hex
    /\ (obj.error.msg # "") <=> (RefHex(scen.pieces, 1, <<>>, FALSE, 0, 1).ended # "closed")
    /\ RefHex(scen.pieces, 1, <<>>, FALSE, 0, 1).ended = "closed" =>
         /\ obj.val = RefHex(scen.pieces, 1, <<>>, FALSE, 0, 1).val
         /\ ts.pos = RefHex(scen.pieces, 1, <<>>, FALSE, 0, 1).end


(***************************************************************************)
(* Dictionaries: parseDict on << key value ... >>                          *)
(***************************************************************************)
MaxEntries == 3

DictKeys == { B(<<"A">>), B(<<"B">>), B(<<"A", "B">>) }

\* The values: the text and the object the text stands for
DictValues ==
  { [text |-> B(<<"1">>), obj |-> NumericVal(1, 0)],
    [text |-> B(<<"2">>), obj |-> NumericVal(2, 0)],
    [text |-> B(<<"(", "x", ")">>), obj |-> String(B(<<"x">>), FALSE, NoErr)] }

DictEntries == { [key |-> k, value |-> v] : k \in DictKeys, v \in DictValues }

RECURSIVE DictText(_)
DictText(es) ==
  IF es = <<>> THEN <<>>
  ELSE T_slash \o Head(es).key \o <<SP>> \o Head(es).value.text \o <<SP>> \o DictText(Tail(es))

InitDict ==
  \E k \in 0..MaxEntries : \E es \in [1..k -> DictEntries] : \E closed \in BOOLEAN :
    /\ scen = [kind |-> "dict", entries |-> es, closed |-> closed,
               input |-> T_ltlt \o DictText(es) \o (IF closed THEN T_gtgt ELSE <<>>)]
    /\ input = scen.input
    /\ ts = peek(TokenParser(input, 0)).ts
    /\ pc = "dict"
    /\ pos = 0
    /\ ios = {}
    /\ tlo = Null
    /\ op = "init"
    /\ tok = <<>>
    /\ obj = Null
    /\ hist = <<>>
    /\ out = <<>>
    /\ ghost = [before |-> ts]

\* readObject on a << token: return parseDict(ts)
ParseDict ==
  /\ pc = "dict" /\ peek(ts).tok = T_ltlt
  /\ \E r \in {parseDict(ts)} : obj' = r.obj /\ ts' = r.ts
  /\ pc' = "parsed"
  /\ op' = "parseDict"
  /\ ghost' = [before |-> ts]
  /\ UNCHANGED <<input, scen, pos, ios, tlo, tok, hist, out>>

NextDict == ParseDict

SpecDict == InitDict /\ [][NextDict]_vars

\* The entries whose key an earlier entry has: the first of them is where a
\* key is repeated
RepeatedAt == {i \in 1..Len(scen.entries) : \E j \in 1..(i - 1) : scen.entries[j].key = scen.entries[i].key}

FirstRepeated == Min(RepeatedAt)

\* The first n entries as a mapping, n being below the first repetition
EntriesBefore(n) ==
  [k \in {scen.entries[i].key : i \in 1..n} |->
     (CHOOSE e \in {scen.entries[i] : i \in 1..n} : e.key = k).value.obj]

\* The offset of the value of entry i
ValueOffset(i) == Len(T_ltlt \o DictText(SubSeq(scen.entries, 1, i - 1))) + Len(scen.entries[i].key) + 2

DictParsed == pc = "parsed" /\ scen.kind = "dict"

\* C27: a Dictionary parseDict returns never holds two entries for one key;
\* when a key is repeated the Dictionary carries the error "Duplicate key /k",
\* the loop stops there, and the entries inserted before the repetition, the
\* first value of k among them, are kept unchanged
DuplicateKeyReported ==
  (DictParsed /\ RepeatedAt # {}) =>
    /\ obj.t = "Dictionary"
    /\ obj.val = EntriesBefore(FirstRepeated - 1)
    /\ obj.error.msg = "Duplicate key /"
    /\ obj.error.arg = scen.entries[FirstRepeated].key
    /\ ts.stack # <<>> /\ lastpos(ts) = ValueOffset(FirstRepeated)

\* The same with the message as the code spells it, and the Dictionary of
\* the inputs that repeat no key
DuplicateKeyStopsLoop ==
  /\ (DictParsed /\ RepeatedAt # {}) =>
       /\ obj.t = "Dictionary"
       /\ obj.val = EntriesBefore(FirstRepeated - 1)
       /\ obj.error = ErrArg("Duplicite key /", scen.entries[FirstRepeated].key,
                           ValueOffset(FirstRepeated) - 1 - Len(scen.entries[FirstRepeated].key))
       /\ ts.stack # <<>> /\ lastpos(ts) = ValueOffset(FirstRepeated)
  /\ (DictParsed /\ RepeatedAt = {} /\ scen.closed) =>
       obj = Dictionary(EntriesBefore(Len(scen.entries)), NoErr)


(***************************************************************************)
(* C28: Numeric of tokens of signs, dots, digits and other bytes           *)
(***************************************************************************)
MaxChars == 4

\* + - . 0 5 x and the vertical tab, which the tokenizer takes for a regular
\* character
NumChars == { B(<<"+">>), B(<<"-">>), B(<<".">>), B(<<"0">>), B(<<"5">>), B(<<"x">>), <<11>> }

InitNumText ==
  \E k \in 0..MaxChars : \E cs \in [1..k -> NumChars] :
    /\ scen = [kind |-> "numtext", input |-> Concat(cs)]
    /\ input = scen.input
    /\ tok = scen.input
    /\ obj = Null
    /\ pc = "token"
    /\ pos = 0
    /\ ios = {}
    /\ tlo = Null
    /\ ts = NoTs
    /\ op = "init"
    /\ hist = <<>>
    /\ out = <<>>
    /\ ghost = [ops |-> 0]

SpecNumText == InitNumText /\ [][NextNum]_vars

\* The token after its sign, if it has one
Unsigned(s) == IF s # <<>> /\ s[1] \in {43, 45} THEN Tail(s) ELSE s

\* An optional sign, then at least one decimal digit and at most one dot
\* anywhere among the digits
WellFormedNumber(s) ==
  /\ \A i \in 1..Len(Unsigned(s)) : Unsigned(s)[i] \in 48..57 \cup {46}
  /\ Cardinality({i \in 1..Len(Unsigned(s)) : Unsigned(s)[i] = 46}) <= 1
  /\ \E i \in 1..Len(Unsigned(s)) : Unsigned(s)[i] \in 48..57

DigitsAfterDot(s) ==
  IF \E i \in 1..Len(s) : s[i] = 46 THEN Len(s) - (CHOOSE i \in 1..Len(s) : s[i] = 46) ELSE 0

\* The number the digits of s spell, its dot left out
RECURSIVE DigitsValue(_, _)
DigitsValue(s, acc) ==
  IF s = <<>> THEN acc
  ELSE IF Head(s) = 46 THEN DigitsValue(Tail(s), acc)
  ELSE DigitsValue(Tail(s), 10 * acc + (Head(s) - 48))

SignedDigits(s) ==
  IF s[1] = 45 THEN 0 - DigitsValue(Unsigned(s), 0) ELSE DigitsValue(Unsigned(s), 0)

\* C28: Numeric(str) is valid exactly when str is an optional sign followed
\* by at least one decimal digit with at most one dot among the digits; then
\* dp is the number of digits after the dot and the stored integer is the
\* digits read without the dot; every other string gives dp < 0
NumericValidExactly ==
  pc = "numeric" =>
    /\ valid(obj) <=> WellFormedNumber(tok)
    /\ WellFormedNumber(tok) => obj.dp = DigitsAfterDot(tok) /\ obj.val_s = SignedDigits(tok)
    /\ ~WellFormedNumber(tok) => obj.dp < 0

\* A dot with no digit at all, a dot before the sign or before a vertical
\* tab, or a leading vertical tab
DotOrTabLeads ==
  \/ tok = B(<<".">>)
  \/ Len(tok) >= 2 /\ tok[1] = 46 /\ tok[2] \in {43, 45, 11}
  \/ tok # <<>> /\ tok[1] = 11

\* The same for the tokens that are not of these three kinds
NumericValidUnlessDotLeads ==
  (pc = "numeric" /\ ~DotOrTabLeads) =>
    /\ valid(obj) <=> WellFormedNumber(tok)
    /\ WellFormedNumber(tok) => obj.dp = DigitsAfterDot(tok) /\ obj.val_s = SignedDigits(tok)
    /\ ~WellFormedNumber(tok) => obj.dp < 0


(***************************************************************************)
(* C29: progress of the read loop                                          *)
(***************************************************************************)
\* An iteration of the loop has been done and the loop goes on
LoopGoesOn == pc = "loop" /\ hist # <<>>

\* C29: every iteration of the read loop either advances the byte source or
\* ends the loop, also after an object that is usable but failed; the loop
\* never delivers the same object again without progress
LoopIterationAdvances ==
  LoopGoesOn => ghost.ran /\ pos > ghost.from

\* The same for the iterations that do not follow a failed Trailer
LoopAdvancesUnlessTrailerFailed ==
  (LoopGoesOn /\ ~(tlo.t = "Trailer" /\ failedTop(tlo))) => ghost.ran /\ pos > ghost.from

\* A failed Trailer leaves the stream bad and the loop running
FailedTrailerStalls ==
  (LoopGoesOn /\ tlo.t = "Trailer" /\ failedTop(tlo)) =>
    /\ "badbit" \in ios
    /\ ~ghost.ran => pos = ghost.from /\ tlo = hist[Len(hist)]


(***************************************************************************)
(* C30: the pushback stack where the parsers turn to the streambuf         *)
(***************************************************************************)
MaxRawWords == 4

\* Words that open strings, streams and xref tables, and words that make the
\* parser look ahead before them
RawWords ==
  { B(<<"1", " ", "0", " ", "o", "b", "j", "\n">>),
    B(<<"<", "<", " ", ">", ">", " ">>),
    B(<<"<", "<", " ", "/", "A", " ">>),
    B(<<"s", "t", "r", "e", "a", "m", "\n">>),
    B(<<"(", "a", ")", " ">>),
    B(<<"<", "4", "1", ">", " ">>),
    B(<<"x", "r", "e", "f", "\n">>),
    B(<<"7", " ">>),
    B(<<"1", " ", "0", " ", "o", "b", "j", "\n", "[", " ">>),
    B(<<"e", "n", "d", "o", "b", "j", "\n">>) }

InitRaw ==
  \E k \in 1..MaxRawWords : \E ws \in [1..k -> RawWords] :
    InitLoop([kind |-> "raw", input |-> Concat(ws)])

SpecRaw == InitRaw /\ [][Next]_vars

\* C30: whenever a parser turns from tokens to reading the streambuf
\* (parseStringLiteral, parseStringHex, parseStream, parseXRefTable) the
\* pushback stack is empty once the opening token is read, so that
\* assert(ts.empty()) holds, and the streambuf stands just after that token
RawReadsStartEmpty ==
  ghost.rawPending = 0 /\ ghost.rawAtToken

\* A string read in an array after two numbers: two tokens were pushed back
\* before its opening parenthesis was read
StringReadAfterLookahead ==
  /\ ghost.ran /\ ghost.maxStack = 2 /\ ghost.raws = 1
  /\ tlo.t = "NamedObject" /\ tlo.contents.t = "Array" /\ Len(tlo.contents.val) >= 3
  /\ tlo.contents.val[3] = String(B(<<"a">>), FALSE, NoErr)

=============================================================================
